---- MODULE Spec2Model ----
(***************************************************************************)
(* Withdrawal lifecycle engine of the bot package: the SQLite-backed       *)
(* WithdrawalStore (storage.py), the WithdrawalManager that sequences      *)
(* store and wallet calls (manager.py) and the WalletClient's send_payment *)
(* (wallet.py), run by concurrent asyncio coroutines on one event loop.    *)
(*                                                                         *)
(* A step of the model is what one coroutine does between two suspension   *)
(* points.  A coroutine is suspended while it waits for the store's        *)
(* asyncio.Lock, while an asyncio.to_thread call runs, and while           *)
(* send_payment is in flight.  A coroutine that waits for the lock has     *)
(* changed nothing since its previous step, so the wait is part of the     *)
(* step that gets the lock; create_request alone reads the clock before it *)
(* asks for the lock, and has a step of its own for that.                  *)
(***************************************************************************)
EXTENDS Integers, Sequences, FiniteSets, TLC

(* ------------------------------ bounds -------------------------------- *)

\* Number of concurrent coroutines calling the Manager.
NumTasks == 3
\* Rows the table gets where the coroutines contend for a request (Spec).
MaxRequests == 1
\* Rows the table gets, and the coroutines at work, where the table fills
\* up (SpecTable).
MaxTableRows == MaxRequests + 1
NumTableTasks == NumTasks - 1
\* Largest value the wall clock (datetime.utcnow) reaches.
MaxClock == 1
\* Largest LIMIT a list call passes.
MaxLimit == 1
\* Listeners that get registered with the Manager (SpecObservers).
MaxListeners == 2

Tasks == 1..NumTasks
\* Every id a run can assign, and one more that is never assigned.
Ids == 1..(IF MaxRequests > MaxTableRows THEN MaxRequests ELSE MaxTableRows) + 1

(* ------------------------------ values -------------------------------- *)

\* Optional[T]: None is NULL, Some(x) a present value.
None == <<>>
Some(x) == <<x>>

\* models.py: WithdrawalStatus
PENDING == "pending"
PROCESSING == "processing"
APPROVED == "approved"
REJECTED == "rejected"
FAILED == "failed"
WithdrawalStatus == {PENDING, PROCESSING, APPROVED, REJECTED, FAILED}

\* JSON values: null, strings and integers; Absent stands for a key that a
\* dict does not have.
JNull == [type |-> "null", s |-> "", n |-> 0]
JStr(x) == [type |-> "str", s |-> x, n |-> 0]
JInt(k) == [type |-> "int", s |-> "", n |-> k]
Absent == [type |-> "absent", s |-> "", n |-> 0]

\* The metadata dicts of the requests: the keys memo and note, each present
\* or not.
EmptyDict == [memo |-> Absent, note |-> Absent]
\* bool(d) of a dict.
NonEmptyDict(d) == \E k \in DOMAIN d : d[k] # Absent

\* The JSON text of each metadata dict, as json.dumps writes it.
JsonTexts ==
    { <<EmptyDict, "{}">>,
      <<[memo |-> JStr("m"), note |-> Absent], "{\"memo\": \"m\"}">>,
      <<[memo |-> JStr(""), note |-> Absent], "{\"memo\": \"\"}">>,
      <<[memo |-> Absent, note |-> JStr("n")], "{\"note\": \"n\"}">> }
\* json.dumps(d), and json.loads(text).
json_dumps(d) == (CHOOSE p \in JsonTexts : p[1] = d)[2]
json_loads(text) == (CHOOSE p \in JsonTexts : p[2] = text)[1]

\* The keyword arguments of create_request, as the intake surface passes them;
\* metadata is None or a dict.
CreateInputs ==
    { [player_name |-> "steve", player_uuid |-> None, wallet_address |-> "addr1",
       amount |-> "1.5", currency |-> "BTC", metadata |-> None],
      [player_name |-> "alex", player_uuid |-> Some("uuid-2"), wallet_address |-> "addr2",
       amount |-> "20", currency |-> "ETH",
       metadata |-> Some([memo |-> JStr("m"), note |-> Absent])] }

\* (admin_name, admin_id) pairs the presentation layer passes.
Admins == { [name |-> "alice", id |-> 11], [name |-> "bob", id |-> 12] }
\* reason of reject_request: Optional[str].
Reasons == { None, Some("policy") }
\* Transaction identifiers a wallet returns, and str(exc) of the exceptions it raises.
TxIds == { "tx-a", "tx-b" }
ErrMsgs == { "wallet down" }
\* Discord message identifiers.
MessageIds == { 101, 102 }
\* limit of list_pending: a row count.
Limits == 0..MaxLimit

(* ------------------------------- state -------------------------------- *)

VARIABLES
    rows,       \* the withdrawals table: id -> row
    autoinc,    \* sqlite_sequence of the AUTOINCREMENT key: largest id ever assigned
    locked,     \* WithdrawalStore._lock (asyncio.Lock) is held
    clock,      \* last value datetime.utcnow() returned
    task,       \* each coroutine: position, arguments and locals of its Manager call
    ret,        \* the outcome of the Manager call that ended in the last step, if one did
    sent,       \* history: number of send_payment invocations per request id
    outcomes,   \* history: what those invocations returned or raised, per request id
    created,    \* history: the ids create_request's INSERT assigned, in order
    listeners,  \* WithdrawalManager._listeners, in registration order
    notified,   \* history: per request id, the snapshot its dispatch took and the
                \* positions of the listeners it has called, in order
    closed,     \* the SQLite connection has been closed (cleanup)
    proc        \* main (main.py): where it is, and the state of the bot task and
                \* of the API server task

vars ==
    <<rows, autoinc, locked, clock, task, ret, sent, outcomes, created,
      listeners, notified, closed, proc>>

\* A coroutine that is in no Manager call.
Idle ==
    [pc |-> "idle", op |-> "none", stage |-> "none", rid |-> 0,
     admin |-> None, reason |-> None, message_id |-> None, limit |-> 0,
     payload |-> None, txid |-> None, snapshot |-> << >>, next |-> 0]

\* main waits for the stop event (main.py line 70) while the two tasks it
\* created (lines 58, 67) run.
Serving == [main |-> "serving", bot |-> "running", server |-> "running"]

\* No call ended in the last step.
NoReturn ==
    [kind |-> "none", op |-> "none", task |-> 0, rid |-> 0, admin |-> None, reason |-> None,
     txid |-> None, limit |-> 0, row |-> None, list |-> << >>, status |-> "", by |-> ""]

(* ---------------------- storage.py: row helpers ----------------------- *)

\* datetime.utcnow(): the clock does not run backwards; two reads may agree.
ClockReads(c) == { n \in c..(c + 1) : n <= MaxClock }

\* _get_row: SELECT * FROM withdrawals WHERE id = ?  (None when no row matches)
_get_row(table, request_id) ==
    IF request_id \in DOMAIN table THEN Some(table[request_id]) ELSE None

\* Mutant: the key does not move past the id it assigned last.
lastrowidReused(seq) == IF seq = 0 THEN 1 ELSE seq
\* The id an INSERT gets from the AUTOINCREMENT key.
lastrowid(seq) == seq + 1

\* _insert_row: INSERT of the payload's columns; the other columns are NULL.
_insert_row(table, seq, payload) ==
    LET id == lastrowid(seq)
        row == payload @@
               [id |-> id, discord_message_id |-> None, approved_by |-> None,
                approved_by_id |-> None, transaction_id |-> None,
                failure_reason |-> None]
    IN  (id :> row) @@ table

\* Mutant: the UPDATE sets the given fields alone.
_update_row_fields_only(table, request_id, fields, now) ==
    [table EXCEPT ![request_id] = fields @@ table[request_id]]

\* Mutant: the UPDATE has no WHERE clause.
_update_row_every_row(table, request_id, fields, now) ==
    [id \in DOMAIN table |-> fields @@ [updated_at |-> now] @@ table[id]]

\* _update_row: UPDATE ... SET fields, updated_at = now WHERE id = ?
_update_row(table, request_id, fields, now) ==
    [table EXCEPT ![request_id] = fields @@ [updated_at |-> now] @@ table[request_id]]

\* Mutant: a failed request may be approved again.
MarkProcessingAllowedRetry(status) == status \in {PENDING, FAILED}
\* Mutant: only the requests a human has settled are refused.
MarkProcessingAllowedUnsettled(status) == status \notin {APPROVED, REJECTED}
\* Mutant: a request that is in processing may be approved again.
MarkProcessingAllowedStuck(status) == status \in {PENDING, PROCESSING}
\* Status check of mark_processing (storage.py line 116).
MarkProcessingAllowed(status) == status = PENDING
\* Mutant: a failed request may still be approved.
MarkApprovedAllowedFromFailed(status) == status \in {PENDING, PROCESSING, FAILED}
\* Mutant: mark_approved also takes a rejected request.
MarkApprovedAllowedFromRejected(status) == status \in {PENDING, PROCESSING, REJECTED}
\* Status check of mark_approved (line 140).
MarkApprovedAllowed(status) == status \in {PENDING, PROCESSING}
\* Mutant: an approved request may still be rejected.
MarkRejectedAllowedAfterApproval(status) == status \in {PENDING, PROCESSING, APPROVED}
\* Mutant: a rejected request may be rejected again.
MarkRejectedAllowedAgain(status) == status \in {PENDING, PROCESSING, REJECTED}
\* Status check of mark_rejected (line 170).
MarkRejectedAllowed(status) == status \in {PENDING, PROCESSING}

\* _row_to_request: the WithdrawalRequest built from a row, column by column.
_row_to_request(row) ==
    [id |-> row.id, player_name |-> row.player_name, player_uuid |-> row.player_uuid,
     wallet_address |-> row.wallet_address, amount |-> row.amount,
     currency |-> row.currency, status |-> row.status, created_at |-> row.created_at,
     updated_at |-> row.updated_at,
     metadata |-> IF row.metadata = "" THEN EmptyDict ELSE json_loads(row.metadata),
     discord_message_id |-> row.discord_message_id, approved_by |-> row.approved_by,
     approved_by_id |-> row.approved_by_id, transaction_id |-> row.transaction_id,
     failure_reason |-> row.failure_reason]

(* -------------------------- task bookkeeping -------------------------- *)

Set(t, r) == task' = [task EXCEPT ![t] = r]

\* What identifies the call of task t in its outcome.
CallOf(t) ==
    [NoReturn EXCEPT !.op = task[t].op, !.task = t, !.rid = task[t].rid,
                     !.admin = task[t].admin, !.reason = task[t].reason,
                     !.txid = task[t].txid, !.limit = task[t].limit]

\* The call of task t ends: it returns a request, or raises.
Returns(t, row) ==
    /\ Set(t, Idle)
    /\ ret' = [CallOf(t) EXCEPT !.kind = "ok", !.row = Some(_row_to_request(row))]
Raises(t, kind, status, by) ==
    /\ Set(t, Idle)
    /\ ret' = [CallOf(t) EXCEPT !.kind = kind, !.status = status, !.by = by]
\* Task t goes on with its call.
GoesOn(t, r) ==
    /\ Set(t, r)
    /\ ret' = NoReturn

(* ------------------- manager.py: the listener registry ------------------ *)

\* What a registered listener is:
\*   "returns"    a plain function that returns;
\*   "raises"     a plain function that raises an Exception;
\*   "coroutine"  a coroutine function: its coroutine suspends, then returns or
\*                raises an Exception;
\*   "observer"   the bot's _handle_new_request (discord_bot.py lines 190-204):
\*                it suspends while it posts the message, then raises, or
\*                calls attach_message and returns.
ListenerKinds == {"returns", "raises", "coroutine", "observer"}

\* line 102: asyncio.iscoroutine(result); the dispatch awaits such a result.
IsCoroutine(kind) == kind \in {"coroutine", "observer"}

\* Mutant: the exception of a listener is not caught, and ends the loop.
RECURSIVE DispatchUncaught(_, _)
DispatchUncaught(snapshot, i) ==
    IF i > Len(snapshot) THEN << >>
    ELSE IF IsCoroutine(snapshot[i]) \/ snapshot[i] = "raises" THEN <<i>>
    ELSE <<i>> \o DispatchUncaught(snapshot, i + 1)

\* _notify_new_request, lines 99-105, from position i of the snapshot until the
\* loop suspends or ends: the positions of the listeners it calls.  The loop
\* suspends in `await result` (line 103) of the last one called when that one
\* is a coroutine; an exception of a plain listener is caught (line 104) and
\* the loop goes on.
RECURSIVE Dispatch(_, _)
Dispatch(snapshot, i) ==
    IF i > Len(snapshot) THEN << >>
    ELSE IF IsCoroutine(snapshot[i]) THEN <<i>>
    ELSE <<i>> \o Dispatch(snapshot, i + 1)

\* create_request of task t goes through the snapshot from position i on, for
\* the request it made of `row`: it waits for a coroutine listener, or comes
\* to the end of the snapshot and returns the request (manager.py line 54).
Notify(t, snapshot, row, i) ==
    LET called == Dispatch(snapshot, i)
        suspended == called # << >> /\ IsCoroutine(snapshot[called[Len(called)]])
    IN  /\ notified' = [notified EXCEPT ![row.id] =
                            [snapshot |-> snapshot, called |-> @.called \o called]]
        /\ IF suspended
             THEN GoesOn(t, [Idle EXCEPT !.pc = "listener", !.op = "create",
                                         !.stage = "notify", !.payload = Some(row),
                                         !.snapshot = snapshot,
                                         !.next = called[Len(called)]])
             ELSE /\ Set(t, Idle)
                  /\ ret' = [NoReturn EXCEPT !.kind = "ok", !.op = "create", !.task = t,
                                             !.row = Some(_row_to_request(row))]

\* A store method of task t returns `row`: to the caller of the Manager, or,
\* when an observer of a create_request called attach_message, to that
\* observer, which returns to the dispatch.
Leaves(t, row) ==
    IF task[t].op = "create" /\ task[t].stage # "create_request"
      THEN Notify(t, task[t].snapshot, task[t].payload[1], task[t].next + 1)
      ELSE Returns(t, row) /\ UNCHANGED notified

\* A store method of task t raises: to the caller of the Manager, or, when an
\* observer of a create_request called attach_message, to the dispatch, which
\* catches the exception (manager.py line 104) and goes on.
Fails(t, kind, status, by) ==
    IF task[t].op = "create" /\ task[t].stage # "create_request"
      THEN Notify(t, task[t].snapshot, task[t].payload[1], task[t].next + 1)
      ELSE Raises(t, kind, status, by) /\ UNCHANGED notified

(* ------------------------------ actions ------------------------------- *)

Init ==
    /\ rows = << >>
    /\ autoinc = 0
    /\ locked = FALSE
    /\ clock = 0
    /\ task = [t \in Tasks |-> Idle]
    /\ ret = NoReturn
    /\ sent = [i \in Ids |-> 0]
    /\ outcomes = [i \in Ids |-> << >>]
    /\ created = << >>
    /\ listeners = << >>
    /\ notified = [i \in Ids |-> [snapshot |-> << >>, called |-> << >>]]
    /\ closed = FALSE
    /\ proc = Serving

(* ------------- Manager.create_request -> Store.create_request ------------ *)

\* line 78: json.dumps(metadata or {}).
MetadataText(metadata) ==
    IF metadata = None THEN json_dumps(EmptyDict)
    ELSE IF NonEmptyDict(metadata[1]) THEN json_dumps(metadata[1])
    ELSE json_dumps(EmptyDict)

\* Store.create_request, lines 69-79: the payload is built, with two clock
\* reads, before the lock is asked for.
BuildPayload(t, input) ==
    \E c \in ClockReads(clock) :
       \E u \in ClockReads(c) :
          /\ clock' = u
          /\ GoesOn(t, [Idle EXCEPT !.pc = "lock", !.op = "create",
                          !.stage = "create_request",
                          !.payload = Some([input EXCEPT
                                               !.metadata = MetadataText(input.metadata)]
                                           @@ [status |-> PENDING, created_at |-> c,
                                               updated_at |-> u])])

\* The creations under way that have not inserted their row yet.
Creating == { u \in Tasks : task[u].stage = "create_request" }

\* Manager.create_request is called (manager.py lines 35-52).
CallCreate(t, cap) ==
    /\ task[t].pc = "idle"
    /\ autoinc + Cardinality(Creating) < cap
    /\ \E input \in CreateInputs : BuildPayload(t, input)
    /\ UNCHANGED <<rows, autoinc, locked, sent, outcomes, created, listeners, notified,
                   closed, proc>>

\* line 81: `async with self._lock`.
AcquireCreate(t) ==
    /\ task[t].pc = "lock" /\ task[t].stage = "create_request"
    /\ ~locked
    /\ locked' = TRUE
    /\ GoesOn(t, [task[t] EXCEPT !.pc = "cs1"])
    /\ UNCHANGED <<rows, autoinc, clock, sent, outcomes, created, listeners, notified,
                   closed, proc>>

\* Mutant: the listeners are told of a request whose row is not in the table.
InsertRowUncommitted(t) ==
    /\ task[t].pc = "cs1" /\ task[t].stage = "create_request"
    /\ ~closed
    /\ LET table == _insert_row(rows, autoinc, task[t].payload[1])
           id == lastrowid(autoinc)
       IN  /\ autoinc' = id
           /\ created' = Append(created, table[id].id)
           /\ Notify(t, listeners, table[id], 1)
    /\ locked' = FALSE
    /\ UNCHANGED <<rows, clock, sent, outcomes, listeners, closed, proc>>

\* Mutant: the listeners are called inside the `async with self._lock` block,
\* so the lock stays held while the dispatch waits for a listener.
InsertRowNotifiesUnderLock(t) ==
    /\ task[t].pc = "cs1" /\ task[t].stage = "create_request"
    /\ ~closed
    /\ LET table == _insert_row(rows, autoinc, task[t].payload[1])
           id == lastrowid(autoinc)
       IN  /\ rows' = table
           /\ autoinc' = id
           /\ created' = Append(created, table[id].id)
           /\ Notify(t, listeners, table[id], 1)
    /\ locked' = (task'[t].pc = "listener")
    /\ UNCHANGED <<clock, sent, outcomes, listeners, closed, proc>>

\* lines 82-83: _insert_row in a thread, release, return.  Manager.create_request
\* goes on to _notify_new_request (manager.py line 53) without suspending: the
\* listener lock is held over line 98 alone, which does not suspend, so it is
\* free; the snapshot is taken and the listeners are called from the first on.
InsertRow(t) ==
    /\ task[t].pc = "cs1" /\ task[t].stage = "create_request"
    /\ ~closed
    /\ LET table == _insert_row(rows, autoinc, task[t].payload[1])
           id == lastrowid(autoinc)
       IN  /\ rows' = table
           /\ autoinc' = id
           /\ created' = Append(created, table[id].id)
           /\ Notify(t, listeners, table[id], 1)
    /\ locked' = FALSE
    /\ UNCHANGED <<clock, sent, outcomes, listeners, closed, proc>>

(* ------------- add_listener and the dispatch to the listeners ------------ *)

\* add_listener (manager.py lines 32-33): a plain method, no suspension.
AddListener(kind) ==
    /\ Len(listeners) < MaxListeners
    /\ listeners' = Append(listeners, kind)
    /\ ret' = NoReturn
    /\ UNCHANGED <<rows, autoinc, locked, clock, task, sent, outcomes, created, notified,
                   closed, proc>>

\* Mutant: the loop goes through the registry itself, not through the copy
\* made of it at line 98.
ListenerEndsReadsRegistry(t) ==
    /\ task[t].pc = "listener"
    /\ Notify(t, listeners, task[t].payload[1], task[t].next + 1)
    /\ UNCHANGED <<rows, autoinc, locked, clock, sent, outcomes, created, listeners,
                   closed, proc>>

\* The coroutine of the listener the dispatch waits for returns, or raises an
\* Exception that line 104 catches: either way the loop goes on with the next
\* listener.  (For the bot's observer: the channel is not found, or posting the
\* message raises.)
ListenerEnds(t) ==
    /\ task[t].pc = "listener"
    /\ Notify(t, task[t].snapshot, task[t].payload[1], task[t].next + 1)
    /\ UNCHANGED <<rows, autoinc, locked, clock, sent, outcomes, created, listeners,
                   closed, proc>>

\* The bot's observer has posted the message and calls attach_message
\* (discord_bot.py line 204); set_discord_message gets the lock (storage.py
\* line 88).
ObserverAttaches(t) ==
    /\ task[t].pc = "listener"
    /\ task[t].snapshot[task[t].next] = "observer"
    /\ ~locked
    /\ locked' = TRUE
    /\ \E m \in MessageIds :
         GoesOn(t, [task[t] EXCEPT !.pc = "cs1", !.stage = "set_discord_message",
                                   !.rid = task[t].payload[1].id,
                                   !.message_id = Some(m)])
    /\ UNCHANGED <<rows, autoinc, clock, sent, outcomes, created, listeners, notified,
                   closed, proc>>

(* --------------------- server.py: POST /withdrawals ---------------------- *)

\* Decimal amounts a request body may carry, and str() of each (storage.py
\* line 73).
IntakeAmounts == {-1, 0, 2}
DecimalStr(n) == IF n = -1 THEN "-1" ELSE IF n = 0 THEN "0" ELSE "2"

\* The request bodies of POST /withdrawals that have every required field.
IntakeBodies ==
    [player_name : {"steve"}, wallet_address : {"", "addr1"}, amount : IntakeAmounts,
     currency : {"", "BTC"}]

\* The validation of the WithdrawalCreate model (server.py lines 16-22): the
\* amount alone carries a constraint, gt=Decimal("0").
WithdrawalCreateAccepts(body) == body.amount > 0

\* create_withdrawal (server.py lines 56-71): a body the model refuses never
\* reaches the handler; otherwise the handler calls Manager.create_request
\* with the fields of the body, player_uuid and metadata being absent.
create_withdrawal(t, cap) ==
    /\ task[t].pc = "idle"
    /\ autoinc + Cardinality(Creating) < cap
    /\ \E body \in IntakeBodies :
         IF WithdrawalCreateAccepts(body)
           THEN BuildPayload(t, [player_name |-> body.player_name, player_uuid |-> None,
                                 wallet_address |-> body.wallet_address,
                                 amount |-> DecimalStr(body.amount),
                                 currency |-> body.currency, metadata |-> None])
           ELSE /\ Raises(t, "RequestValidationError", "", "WithdrawalCreate")
                /\ UNCHANGED clock
    /\ UNCHANGED <<rows, autoinc, locked, sent, outcomes, created, listeners, notified,
                   closed, proc>>

(* ---- Manager.approve_request: mark_processing, send_payment, outcome ---- *)

\* approve_request is called and mark_processing gets the lock (line 111).
CallApprove(t, ids) ==
    /\ task[t].pc = "idle"
    /\ ~locked
    /\ locked' = TRUE
    /\ \E id \in ids, a \in Admins :
         GoesOn(t, [Idle EXCEPT !.pc = "cs1", !.op = "approve", !.stage = "mark_processing",
                                !.rid = id, !.admin = Some(a)])
    /\ UNCHANGED <<rows, autoinc, clock, sent, outcomes, created, listeners, notified,
                   closed, proc>>

\* Mutant: the status check runs under one hold of the lock and the update
\* under another, so the lock is free between the two.
MarkProcessingReadThenRelease(t) ==
    /\ task[t].pc = "cs1" /\ task[t].stage = "mark_processing"
    /\ ~closed
    /\ LET request == _get_row(rows, task[t].rid)
       IN  IF request = None
             THEN Raises(t, "WithdrawalNotFoundError", "", "mark_processing")
             ELSE IF ~MarkProcessingAllowed(_row_to_request(request[1]).status)
               THEN Raises(t, "WithdrawalStateError", request[1].status, "mark_processing")
               ELSE GoesOn(t, [task[t] EXCEPT !.pc = "cs2"])
    /\ locked' = FALSE
    /\ UNCHANGED <<rows, autoinc, clock, sent, outcomes, created, listeners, notified,
                   closed, proc>>

\* mark_processing, lines 112-119: _get_row in a thread, then the two checks.
\* A raise leaves the `async with` block, which releases the lock.
MarkProcessingRead(t) ==
    /\ task[t].pc = "cs1" /\ task[t].stage = "mark_processing"
    /\ ~closed
    /\ LET request == _get_row(rows, task[t].rid)
       IN  IF request = None
             THEN /\ Raises(t, "WithdrawalNotFoundError", "", "mark_processing")
                  /\ locked' = FALSE
             ELSE IF ~MarkProcessingAllowed(_row_to_request(request[1]).status)
               THEN /\ Raises(t, "WithdrawalStateError", request[1].status,
                              "mark_processing")
                    /\ locked' = FALSE
               ELSE /\ GoesOn(t, [task[t] EXCEPT !.pc = "cs2"])
                    /\ UNCHANGED locked
    /\ UNCHANGED <<rows, autoinc, clock, sent, outcomes, created, listeners, notified,
                   closed, proc>>

\* Mutant: approve_request calls send_payment inside the `async with` block,
\* so the lock stays held while the payment is in flight.
MarkProcessingWriteKeepsLock(t) ==
    /\ task[t].pc = "cs2" /\ task[t].stage = "mark_processing"
    /\ \E now \in ClockReads(clock) :
         /\ clock' = now
         /\ rows' = _update_row(rows, task[t].rid, [status |-> PROCESSING], now)
    /\ locked' = TRUE
    /\ IF task[t].op = "approve"
         THEN /\ sent' = [sent EXCEPT ![rows'[task[t].rid].id] = @ + 1]
              /\ GoesOn(t, [task[t] EXCEPT !.pc = "wallet", !.stage = "send_payment"])
         ELSE /\ Returns(t, rows'[task[t].rid])
              /\ UNCHANGED sent
    /\ UNCHANGED <<autoinc, outcomes, created, listeners, notified, closed, proc>>

\* mark_processing, lines 120-125: _update_row in a thread, release, return.
\* approve_request then calls send_payment (manager.py line 62) before it
\* suspends again, so the invocation belongs to this step; a caller of the
\* Store alone gets the request back.
MarkProcessingWrite(t) ==
    /\ task[t].pc = "cs2" /\ task[t].stage = "mark_processing"
    /\ \E now \in ClockReads(clock) :
         /\ clock' = now
         /\ rows' = _update_row(rows, task[t].rid, [status |-> PROCESSING], now)
    /\ locked' = FALSE
    /\ IF task[t].op = "approve"
         THEN /\ sent' = [sent EXCEPT ![rows'[task[t].rid].id] = @ + 1]
              /\ GoesOn(t, [task[t] EXCEPT !.pc = "wallet", !.stage = "send_payment"])
         ELSE /\ Returns(t, rows'[task[t].rid])
              /\ UNCHANGED sent
    /\ UNCHANGED <<autoinc, outcomes, created, listeners, notified, closed, proc>>

\* send_payment returns a transaction id and mark_approved gets the lock
\* (manager.py lines 67-72, storage.py line 135).
SendPaymentReturns(t) ==
    /\ task[t].pc = "wallet"
    /\ ~locked
    /\ locked' = TRUE
    /\ \E tx \in TxIds :
         /\ GoesOn(t, [task[t] EXCEPT !.pc = "cs1", !.stage = "mark_approved",
                                       !.txid = Some(tx)])
         /\ outcomes' = [outcomes EXCEPT ![task[t].rid] =
                             Append(@, [returned |-> TRUE, value |-> tx])]
    /\ UNCHANGED <<rows, autoinc, clock, sent, created, listeners, notified, closed, proc>>

\* send_payment raises an Exception, which line 63 catches, and mark_failed
\* gets the lock, with str(exc) as the reason (manager.py lines 63-65,
\* storage.py line 187).
SendPaymentRaises(t) ==
    /\ task[t].pc = "wallet"
    /\ ~locked
    /\ locked' = TRUE
    /\ \E e \in ErrMsgs :
         /\ GoesOn(t, [task[t] EXCEPT !.pc = "cs1", !.stage = "mark_failed",
                                       !.reason = Some(e)])
         /\ outcomes' = [outcomes EXCEPT ![task[t].rid] =
                             Append(@, [returned |-> FALSE, value |-> e])]
    /\ UNCHANGED <<rows, autoinc, clock, sent, created, listeners, notified, closed, proc>>

\* mark_approved, lines 136-143.
MarkApprovedRead(t) ==
    /\ task[t].pc = "cs1" /\ task[t].stage = "mark_approved"
    /\ ~closed
    /\ LET request == _get_row(rows, task[t].rid)
       IN  IF request = None
             THEN /\ Raises(t, "WithdrawalNotFoundError", "", "mark_approved")
                  /\ locked' = FALSE
             ELSE IF ~MarkApprovedAllowed(_row_to_request(request[1]).status)
               THEN /\ Raises(t, "WithdrawalStateError", request[1].status, "mark_approved")
                    /\ locked' = FALSE
               ELSE /\ GoesOn(t, [task[t] EXCEPT !.pc = "cs2"])
                    /\ UNCHANGED locked
    /\ UNCHANGED <<rows, autoinc, clock, sent, outcomes, created, listeners, notified,
                   closed, proc>>

\* The columns mark_approved writes (lines 147-153).
ApprovedFields(admin_name, admin_id, transaction_id) ==
    [status |-> APPROVED, approved_by |-> Some(admin_name),
     approved_by_id |-> Some(admin_id), transaction_id |-> Some(transaction_id),
     failure_reason |-> None]

\* mark_approved, lines 144-155; approve_request returns the approved request.
MarkApprovedWrite(t) ==
    /\ task[t].pc = "cs2" /\ task[t].stage = "mark_approved"
    /\ \E now \in ClockReads(clock) :
         /\ clock' = now
         /\ rows' = _update_row(rows, task[t].rid,
                                ApprovedFields(task[t].admin[1].name, task[t].admin[1].id,
                                               task[t].txid[1]), now)
    /\ locked' = FALSE
    /\ Returns(t, rows'[task[t].rid])
    /\ UNCHANGED <<autoinc, sent, outcomes, created, listeners, notified, closed, proc>>

\* mark_failed, lines 188-190: no status check.
MarkFailedRead(t) ==
    /\ task[t].pc = "cs1" /\ task[t].stage = "mark_failed"
    /\ ~closed
    /\ IF _get_row(rows, task[t].rid) = None
         THEN /\ Raises(t, "WithdrawalNotFoundError", "", "mark_failed")
              /\ locked' = FALSE
         ELSE /\ GoesOn(t, [task[t] EXCEPT !.pc = "cs2"])
              /\ UNCHANGED locked
    /\ UNCHANGED <<rows, autoinc, clock, sent, outcomes, created, listeners, notified,
                   closed, proc>>

\* Mutant: mark_failed clears the transaction id as well.
FailedFieldsForgetsTransaction(reason) ==
    [status |-> FAILED, failure_reason |-> Some(reason), transaction_id |-> None]
\* Mutant: mark_failed writes the reason alone.
FailedFieldsReasonOnly(reason) == [failure_reason |-> Some(reason)]
\* Mutant: mark_failed writes the status alone.
FailedFieldsStatusOnly(reason) == [status |-> FAILED]
\* The columns mark_failed writes (lines 194-197).
FailedFields(reason) == [status |-> FAILED, failure_reason |-> Some(reason)]

\* mark_failed, lines 191-199; approve_request then raises WalletError (line
\* 66), and a caller of the Store alone gets the request back.
MarkFailedWrite(t) ==
    /\ task[t].pc = "cs2" /\ task[t].stage = "mark_failed"
    /\ \E now \in ClockReads(clock) :
         /\ clock' = now
         /\ rows' = _update_row(rows, task[t].rid, FailedFields(task[t].reason[1]), now)
    /\ locked' = FALSE
    /\ IF task[t].op = "approve"
         THEN Raises(t, "WalletError", "", "approve_request")
         ELSE Returns(t, rows'[task[t].rid])
    /\ UNCHANGED <<autoinc, sent, outcomes, created, listeners, notified, closed, proc>>

(* ------------- Manager.reject_request -> Store.mark_rejected ------------- *)

\* Mutant: mark_rejected enters its critical section without waiting for the
\* lock.
CallRejectBarging(t, ids) ==
    /\ task[t].pc = "idle"
    /\ locked' = TRUE
    /\ \E id \in ids, a \in Admins, r \in Reasons :
         GoesOn(t, [Idle EXCEPT !.pc = "cs1", !.op = "reject", !.stage = "mark_rejected",
                                !.rid = id, !.admin = Some(a), !.reason = r])
    /\ UNCHANGED <<rows, autoinc, clock, sent, outcomes, created, listeners, notified,
                   closed, proc>>

\* reject_request is called and mark_rejected gets the lock (line 165).
CallReject(t, ids) ==
    /\ task[t].pc = "idle"
    /\ ~locked
    /\ locked' = TRUE
    /\ \E id \in ids, a \in Admins, r \in Reasons :
         GoesOn(t, [Idle EXCEPT !.pc = "cs1", !.op = "reject", !.stage = "mark_rejected",
                                !.rid = id, !.admin = Some(a), !.reason = r])
    /\ UNCHANGED <<rows, autoinc, clock, sent, outcomes, created, listeners, notified,
                   closed, proc>>

\* Mutant: mark_rejected notes the refusal in the row it refuses to reject.
MarkRejectedReadNotesRefusal(t) ==
    /\ task[t].pc = "cs1" /\ task[t].stage = "mark_rejected"
    /\ ~closed
    /\ LET request == _get_row(rows, task[t].rid)
       IN  IF request = None
             THEN /\ Raises(t, "WithdrawalNotFoundError", "", "mark_rejected")
                  /\ locked' = FALSE
                  /\ UNCHANGED rows
             ELSE IF ~MarkRejectedAllowed(_row_to_request(request[1]).status)
               THEN /\ Raises(t, "WithdrawalStateError", request[1].status, "mark_rejected")
                    /\ locked' = FALSE
                    /\ rows' = [rows EXCEPT ![task[t].rid].failure_reason =
                                                Some("invalid state")]
               ELSE /\ GoesOn(t, [task[t] EXCEPT !.pc = "cs2"])
                    /\ UNCHANGED <<locked, rows>>
    /\ UNCHANGED <<autoinc, clock, sent, outcomes, created, listeners, notified,
                   closed, proc>>

\* mark_rejected, lines 166-173.
MarkRejectedRead(t) ==
    /\ task[t].pc = "cs1" /\ task[t].stage = "mark_rejected"
    /\ ~closed
    /\ LET request == _get_row(rows, task[t].rid)
       IN  IF request = None
             THEN /\ Raises(t, "WithdrawalNotFoundError", "", "mark_rejected")
                  /\ locked' = FALSE
             ELSE IF ~MarkRejectedAllowed(_row_to_request(request[1]).status)
               THEN /\ Raises(t, "WithdrawalStateError", request[1].status, "mark_rejected")
                    /\ locked' = FALSE
               ELSE /\ GoesOn(t, [task[t] EXCEPT !.pc = "cs2"])
                    /\ UNCHANGED locked
    /\ UNCHANGED <<rows, autoinc, clock, sent, outcomes, created, listeners, notified,
                   closed, proc>>

\* The columns mark_rejected writes (lines 177-182).
RejectedFields(admin_name, admin_id, reason) ==
    [status |-> REJECTED, approved_by |-> Some(admin_name),
     approved_by_id |-> Some(admin_id), failure_reason |-> reason]

\* Mutant: mark_rejected returns without releasing the lock.
MarkRejectedWriteKeepsLock(t) ==
    /\ task[t].pc = "cs2" /\ task[t].stage = "mark_rejected"
    /\ \E now \in ClockReads(clock) :
         /\ clock' = now
         /\ rows' = _update_row(rows, task[t].rid,
                                RejectedFields(task[t].admin[1].name, task[t].admin[1].id,
                                               task[t].reason), now)
    /\ locked' = TRUE
    /\ Returns(t, rows'[task[t].rid])
    /\ UNCHANGED <<autoinc, sent, outcomes, created, listeners, notified, closed, proc>>

\* mark_rejected, lines 174-184; reject_request returns the rejected request.
MarkRejectedWrite(t) ==
    /\ task[t].pc = "cs2" /\ task[t].stage = "mark_rejected"
    /\ \E now \in ClockReads(clock) :
         /\ clock' = now
         /\ rows' = _update_row(rows, task[t].rid,
                                RejectedFields(task[t].admin[1].name, task[t].admin[1].id,
                                               task[t].reason), now)
    /\ locked' = FALSE
    /\ Returns(t, rows'[task[t].rid])
    /\ UNCHANGED <<autoinc, sent, outcomes, created, listeners, notified, closed, proc>>

(* ----------- Manager.attach_message -> Store.set_discord_message ---------- *)

\* attach_message is called and set_discord_message gets the lock (line 88).
CallAttach(t, ids) ==
    /\ task[t].pc = "idle"
    /\ ~locked
    /\ locked' = TRUE
    /\ \E id \in ids, m \in MessageIds :
         GoesOn(t, [Idle EXCEPT !.pc = "cs1", !.op = "attach",
                                !.stage = "set_discord_message",
                                !.rid = id, !.message_id = Some(m)])
    /\ UNCHANGED <<rows, autoinc, clock, sent, outcomes, created, listeners, notified,
                   closed, proc>>

\* set_discord_message, lines 89-94: _update_row in a thread (which raises when
\* the UPDATE matched no row, lines 259-260), release, return.
SetDiscordMessage(t) ==
    /\ task[t].pc = "cs1" /\ task[t].stage = "set_discord_message"
    /\ ~closed
    /\ IF task[t].rid \in DOMAIN rows
         THEN /\ \E now \in ClockReads(clock) :
                   /\ clock' = now
                   /\ rows' = _update_row(rows, task[t].rid,
                                          [discord_message_id |-> task[t].message_id], now)
              /\ Leaves(t, rows'[task[t].rid])
         ELSE /\ Fails(t, "WithdrawalNotFoundError", "", "set_discord_message")
              /\ UNCHANGED <<rows, clock>>
    /\ locked' = FALSE
    /\ UNCHANGED <<autoinc, sent, outcomes, created, listeners, closed, proc>>

(* --------------- Manager.get_request -> Store.get_request ---------------- *)

\* get_request is called and gets the lock (line 97).
CallGet(t, ids) ==
    /\ task[t].pc = "idle"
    /\ ~locked
    /\ locked' = TRUE
    /\ \E id \in ids :
         GoesOn(t, [Idle EXCEPT !.pc = "cs1", !.op = "get", !.stage = "get_request",
                                !.rid = id])
    /\ UNCHANGED <<rows, autoinc, clock, sent, outcomes, created, listeners, notified,
                   closed, proc>>

\* Mutant: get_request returns nothing when no row matches.
GetRequestOrNothing(t) ==
    /\ task[t].pc = "cs1" /\ task[t].stage = "get_request"
    /\ ~closed
    /\ LET row == _get_row(rows, task[t].rid)
       IN  IF row = None
             THEN Set(t, Idle) /\ ret' = [CallOf(t) EXCEPT !.kind = "ok"]
             ELSE Returns(t, row[1])
    /\ locked' = FALSE
    /\ UNCHANGED <<rows, autoinc, clock, sent, outcomes, created, listeners, notified,
                   closed, proc>>

\* get_request, lines 98-101.
GetRequest(t) ==
    /\ task[t].pc = "cs1" /\ task[t].stage = "get_request"
    /\ ~closed
    /\ LET row == _get_row(rows, task[t].rid)
       IN  IF row = None
             THEN Raises(t, "WithdrawalNotFoundError", "", "get_request")
             ELSE Returns(t, row[1])
    /\ locked' = FALSE
    /\ UNCHANGED <<rows, autoinc, clock, sent, outcomes, created, listeners, notified,
                   closed, proc>>

(* -------------- Manager.list_pending -> Store.list_requests -------------- *)

\* The sequences without repetition of the elements of S.
Orders(S) ==
    { s \in [1..Cardinality(S) -> S] : \A i, j \in DOMAIN s : i # j => s[i] # s[j] }

\* LIMIT n of a query: the first n rows; a negative n sets no limit.
LimitRows(s, n) ==
    IF n < 0 \/ n >= Len(s) THEN s ELSE SubSeq(s, 1, n)

\* Mutant: ORDER BY created_at ASC.
_select_rows_ascending(table, status, limit) ==
    LET match == { id \in DOMAIN table : status = None \/ table[id].status = status[1] }
        sorted == { s \in Orders(match) :
                      \A i, j \in DOMAIN s :
                          i < j => table[s[i]].created_at <= table[s[j]].created_at }
    IN  { LimitRows([i \in DOMAIN s |-> table[s[i]]], limit) : s \in sorted }

\* _select_rows: the results the query may give.  WHERE status = ? when a
\* status is given, ORDER BY created_at DESC (rows of equal created_at come in
\* an order the query does not fix), LIMIT ?.
_select_rows(table, status, limit) ==
    LET match == { id \in DOMAIN table : status = None \/ table[id].status = status[1] }
        sorted == { s \in Orders(match) :
                      \A i, j \in DOMAIN s :
                          i < j => table[s[i]].created_at >= table[s[j]].created_at }
    IN  { LimitRows([i \in DOMAIN s |-> table[s[i]]], limit) : s \in sorted }

\* list_pending(limit) is called and list_requests gets the lock (line 106).
CallList(t) ==
    /\ task[t].pc = "idle"
    /\ ~locked
    /\ locked' = TRUE
    /\ \E n \in Limits :
         GoesOn(t, [Idle EXCEPT !.pc = "cs1", !.op = "list", !.stage = "list_requests",
                                !.limit = n])
    /\ UNCHANGED <<rows, autoinc, clock, sent, outcomes, created, listeners, notified,
                   closed, proc>>

\* list_requests, lines 107-108, with status = PENDING (manager.py line 91).
ListRequests(t) ==
    /\ task[t].pc = "cs1" /\ task[t].stage = "list_requests"
    /\ ~closed
    /\ \E result \in _select_rows(rows, Some(PENDING), task[t].limit) :
         /\ Set(t, Idle)
         /\ ret' = [CallOf(t) EXCEPT !.kind = "ok",
                       !.list = [i \in DOMAIN result |-> _row_to_request(result[i])]]
    /\ locked' = FALSE
    /\ UNCHANGED <<rows, autoinc, clock, sent, outcomes, created, listeners, notified,
                   closed, proc>>

(* ------------------ the Store's transitions, called alone ----------------- *)

\* Store.mark_processing is called and gets the lock (line 111).
CallMarkProcessing(t, ids) ==
    /\ task[t].pc = "idle"
    /\ ~locked
    /\ locked' = TRUE
    /\ \E id \in ids :
         GoesOn(t, [Idle EXCEPT !.pc = "cs1", !.op = "mark_processing",
                                !.stage = "mark_processing", !.rid = id])
    /\ UNCHANGED <<rows, autoinc, clock, sent, outcomes, created, listeners, notified,
                   closed, proc>>

\* Store.mark_approved is called and gets the lock (line 135).
CallMarkApproved(t, ids) ==
    /\ task[t].pc = "idle"
    /\ ~locked
    /\ locked' = TRUE
    /\ \E id \in ids, a \in Admins, tx \in TxIds :
         GoesOn(t, [Idle EXCEPT !.pc = "cs1", !.op = "mark_approved",
                                !.stage = "mark_approved", !.rid = id,
                                !.admin = Some(a), !.txid = Some(tx)])
    /\ UNCHANGED <<rows, autoinc, clock, sent, outcomes, created, listeners, notified,
                   closed, proc>>

\* Store.mark_failed is called and gets the lock (line 187).
CallMarkFailed(t, ids) ==
    /\ task[t].pc = "idle"
    /\ ~locked
    /\ locked' = TRUE
    /\ \E id \in ids, e \in ErrMsgs :
         GoesOn(t, [Idle EXCEPT !.pc = "cs1", !.op = "mark_failed",
                                !.stage = "mark_failed", !.rid = id,
                                !.reason = Some(e)])
    /\ UNCHANGED <<rows, autoinc, clock, sent, outcomes, created, listeners, notified,
                   closed, proc>>

(* ------------------------------ Store.cleanup ----------------------------- *)

\* cleanup is called and gets the lock (line 204).
CallCleanup(t) ==
    /\ task[t].pc = "idle"
    /\ ~locked
    /\ locked' = TRUE
    /\ GoesOn(t, [Idle EXCEPT !.pc = "cs1", !.op = "cleanup", !.stage = "cleanup"])
    /\ UNCHANGED <<rows, autoinc, clock, sent, outcomes, created, listeners, notified,
                   closed, proc>>

\* line 205: the connection is closed in a thread (closing a closed connection
\* does nothing); release, return.
Close(t) ==
    /\ task[t].pc = "cs1" /\ task[t].stage = "cleanup"
    /\ closed' = TRUE
    /\ locked' = FALSE
    /\ Set(t, Idle)
    /\ ret' = [CallOf(t) EXCEPT !.kind = "ok"]
    /\ UNCHANGED <<rows, autoinc, clock, sent, outcomes, created, listeners,
                   notified, proc>>

\* A store method runs its first statement on the closed connection: sqlite3
\* raises ProgrammingError in the thread, which leaves the `async with` block
\* and reaches the caller.
OperateOnClosed(t) ==
    /\ task[t].pc = "cs1" /\ task[t].stage # "cleanup"
    /\ closed
    /\ Fails(t, "ProgrammingError", "", task[t].stage)
    /\ locked' = FALSE
    /\ UNCHANGED <<rows, autoinc, clock, sent, outcomes, created, listeners, closed, proc>>

(* ------------------- abandonment of an approve_request ------------------ *)

\* The coroutine of an approve_request is cancelled while send_payment is in
\* flight (manager.py line 62): CancelledError is no Exception, so line 63
\* does not catch it and it leaves approve_request; nothing is written.
CancelPayment(t) ==
    /\ task[t].pc = "wallet"
    /\ Raises(t, "CancelledError", "", "send_payment")
    /\ UNCHANGED <<rows, autoinc, locked, clock, sent, outcomes, created, listeners, notified,
                   closed, proc>>

\* The process stops at some point and is started again on the same database
\* file (storage.py lines 26-31): the table and the key sequence are what was
\* committed; every coroutine, the lock and the listener registry are gone, and
\* the connection is a new one.
Crash ==
    /\ task' = [t \in Tasks |-> Idle]
    /\ locked' = FALSE
    /\ listeners' = << >>
    /\ closed' = FALSE
    /\ ret' = NoReturn
    /\ UNCHANGED <<rows, autoinc, clock, sent, outcomes, created, notified, proc>>

(* -------------------- wallet.py: the HTTP wallet clients ------------------ *)

\* bool(v), `a or b`, dict.get(k) and str(v) of Python, on JSON values.
Truthy(v) == (v.type = "str" /\ v.s # "") \/ (v.type = "int" /\ v.n # 0)
PyOr(a, b) == IF Truthy(a) THEN a ELSE b
DictGet(d, k) == IF d[k] = Absent THEN JNull ELSE d[k]
IntText(n) == IF n = 0 THEN "0" ELSE "7"
PyStr(v) == IF v.type = "str" THEN v.s ELSE IF v.type = "int" THEN IntText(v.n) ELSE "None"

\* The keys the clients look up in a response, and the values a key may have.
ResponseKeys == {"transactionHash", "transaction_id", "txid", "id"}
FieldValues == {JNull, JStr(""), JInt(0), JInt(7), JStr("tx-a")}
NoFields == [k \in ResponseKeys |-> Absent]

\* What the body of a response is: a JSON object; JSON that is no object (an
\* array, null, a number, a string; aiohttp gives None for an empty body); or
\* text that is not JSON.
Bodies ==
    { [kind |-> "object", data |-> d] : d \in [ResponseKeys -> FieldValues \cup {Absent}] }
       \cup { [kind |-> "json", data |-> NoFields], [kind |-> "text", data |-> NoFields] }

\* How session.post ends: aiohttp raises a ClientError, or a response comes.
Replies ==
    { [kind |-> "client_error", status |-> 0, body |-> [kind |-> "text", data |-> NoFields]] }
       \cup { [kind |-> "response", status |-> st, body |-> b] : st \in {200, 399}, b \in Bodies }
       \cup { [kind |-> "response", status |-> st, body |-> [kind |-> "text", data |-> NoFields]] :
                st \in {400, 503} }

\* send_payment returns a string, or raises an exception of class exc whose
\* str() is message.
WalletReturns(value) == [returned |-> TRUE, exc |-> "", value |-> value]
WalletRaises(exc, message) == [returned |-> FALSE, exc |-> exc, value |-> message]

\* HTTPWalletClient.send_payment, lines 71-78: the JSON payload.
HTTPPayload(request) ==
    [request_id |-> request.id, player_name |-> request.player_name,
     wallet_address |-> request.wallet_address, amount |-> request.amount,
     currency |-> request.currency, metadata |-> request.metadata]

\* Mutant: the field id is looked at before txid.
HTTPWalletClient_send_payment_id_first(reply) ==
    IF reply.kind = "client_error"
      THEN WalletRaises("WalletError", "Failed to contact wallet endpoint")
    ELSE IF reply.status >= 400
      THEN WalletRaises("WalletError", "Wallet request failed with status")
    ELSE IF reply.body.kind = "text"
      THEN WalletRaises("JSONDecodeError", "Expecting value")
    ELSE IF reply.body.kind # "object"
      THEN WalletRaises("AttributeError", "object has no attribute 'get'")
    ELSE LET data == reply.body.data
             transaction_id ==
                 PyOr(PyOr(DictGet(data, "transaction_id"), DictGet(data, "id")),
                      DictGet(data, "txid"))
         IN  IF ~Truthy(transaction_id)
               THEN WalletRaises("WalletError",
                                 "Wallet response missing transaction identifier")
               ELSE WalletReturns(PyStr(transaction_id))

\* HTTPWalletClient.send_payment, lines 82-108, on the way session.post ended.
\* A ClientError becomes WalletError (lines 91-92); a status >= 400 raises
\* WalletError (lines 85-89); response.json(content_type=None) raises
\* JSONDecodeError on text that is not JSON, which nothing catches; data.get
\* (line 95) raises AttributeError when the JSON is no object; the identifier
\* is `a or b or c` of the three fields (lines 94-98).
HTTPWalletClient_send_payment(reply) ==
    IF reply.kind = "client_error"
      THEN WalletRaises("WalletError", "Failed to contact wallet endpoint")
    ELSE IF reply.status >= 400
      THEN WalletRaises("WalletError", "Wallet request failed with status")
    ELSE IF reply.body.kind = "text"
      THEN WalletRaises("JSONDecodeError", "Expecting value")
    ELSE IF reply.body.kind # "object"
      THEN WalletRaises("AttributeError", "object has no attribute 'get'")
    ELSE LET data == reply.body.data
             transaction_id ==
                 PyOr(PyOr(DictGet(data, "transaction_id"), DictGet(data, "txid")),
                      DictGet(data, "id"))
         IN  IF ~Truthy(transaction_id)
               THEN WalletRaises("WalletError",
                                 "Wallet response missing transaction identifier")
               ELSE WalletReturns(PyStr(transaction_id))

\* priority of the PiteasWalletClient: Optional[str] from PITEAS_PRIORITY.
Priorities == { None, Some(""), Some("high") }

\* PiteasWalletClient.send_payment, lines 158-174: the JSON payload; metadata,
\* memo and priority are keys it has or has not.
PiteasPayload(request, priority) ==
    LET memo == DictGet(request.metadata, "memo") IN
    [address |-> request.wallet_address, amount |-> request.amount,
     asset |-> "asset", network |-> "network", externalId |-> request.id,
     playerName |-> request.player_name,
     metadata |-> IF NonEmptyDict(request.metadata) THEN Some(request.metadata) ELSE None,
     memo |-> IF NonEmptyDict(request.metadata) /\ Truthy(memo) THEN Some(memo) ELSE None,
     priority |-> IF priority # None /\ priority[1] # "" THEN priority ELSE None]

\* Mutant: the field transaction_id is looked at before transactionHash.
PiteasWalletClient_send_payment_hash_second(reply) ==
    IF reply.kind = "client_error"
      THEN WalletRaises("WalletError", "Failed to contact Piteas wallet endpoint")
    ELSE IF reply.status >= 400
      THEN WalletRaises("WalletError", "Piteas wallet request failed with status")
    ELSE IF reply.body.kind = "text"
      THEN WalletRaises("JSONDecodeError", "Expecting value")
    ELSE IF reply.body.kind # "object"
      THEN WalletRaises("AttributeError", "object has no attribute 'get'")
    ELSE LET data == reply.body.data
             transaction_id ==
                 PyOr(PyOr(PyOr(DictGet(data, "transaction_id"),
                                DictGet(data, "transactionHash")),
                           DictGet(data, "txid")),
                      DictGet(data, "id"))
         IN  IF ~Truthy(transaction_id)
               THEN WalletRaises("WalletError",
                                 "Piteas response missing transaction identifier")
               ELSE WalletReturns(PyStr(transaction_id))

\* PiteasWalletClient.send_payment, lines 178-205, on the way session.post
\* ended: as the HTTP client, with four fields (lines 190-195).
PiteasWalletClient_send_payment(reply) ==
    IF reply.kind = "client_error"
      THEN WalletRaises("WalletError", "Failed to contact Piteas wallet endpoint")
    ELSE IF reply.status >= 400
      THEN WalletRaises("WalletError", "Piteas wallet request failed with status")
    ELSE IF reply.body.kind = "text"
      THEN WalletRaises("JSONDecodeError", "Expecting value")
    ELSE IF reply.body.kind # "object"
      THEN WalletRaises("AttributeError", "object has no attribute 'get'")
    ELSE LET data == reply.body.data
             transaction_id ==
                 PyOr(PyOr(PyOr(DictGet(data, "transactionHash"),
                                DictGet(data, "transaction_id")),
                           DictGet(data, "txid")),
                      DictGet(data, "id"))
         IN  IF ~Truthy(transaction_id)
               THEN WalletRaises("WalletError",
                                 "Piteas response missing transaction identifier")
               ELSE WalletReturns(PyStr(transaction_id))

\* The requests the plugin makes, with each kind of metadata.
MemoInputs ==
    { [player_name |-> "steve", player_uuid |-> None, wallet_address |-> "addr1",
       amount |-> "1.5", currency |-> "BTC", metadata |-> m] :
         m \in {None} \cup { Some(p[1]) : p \in JsonTexts } }

\* Manager.create_request is called with one of them.
CallCreateWithMemo(t, cap) ==
    /\ task[t].pc = "idle"
    /\ autoinc + Cardinality(Creating) < cap
    /\ \E input \in MemoInputs : BuildPayload(t, input)
    /\ UNCHANGED <<rows, autoinc, locked, sent, outcomes, created, listeners, notified,
                   closed, proc>>

\* approve_request goes on after send_payment of task t ended with `result`
\* (manager.py lines 62-72): with mark_approved when it returned, and with
\* mark_failed, str(exc) being the reason, when it raised an Exception; the
\* store method gets the lock.
AfterPayment(t, result, exchange) ==
    /\ outcomes' = [outcomes EXCEPT ![task[t].rid] = Append(@, result @@ exchange)]
    /\ IF result.returned
         THEN GoesOn(t, [task[t] EXCEPT !.pc = "cs1", !.stage = "mark_approved",
                                        !.txid = Some(result.value)])
         ELSE GoesOn(t, [task[t] EXCEPT !.pc = "cs1", !.stage = "mark_failed",
                                        !.reason = Some(result.value)])

\* The wallet is an HTTPWalletClient, and the exchange of send_payment ends.
\* The payload was made of the request mark_processing returned; the columns
\* it is made of are the ones no update writes.
HTTPWalletAnswers(t) ==
    /\ task[t].pc = "wallet"
    /\ ~locked
    /\ locked' = TRUE
    /\ \E reply \in Replies :
         AfterPayment(t, HTTPWalletClient_send_payment(reply),
                      [client |-> "http", reply |-> reply, priority |-> None,
                       request |-> _row_to_request(rows[task[t].rid]),
                       payload |-> HTTPPayload(_row_to_request(rows[task[t].rid]))])
    /\ UNCHANGED <<rows, autoinc, clock, sent, created, listeners, notified, closed, proc>>

\* The wallet is a PiteasWalletClient with some priority, and the exchange of
\* send_payment ends.
PiteasWalletAnswers(t) ==
    /\ task[t].pc = "wallet"
    /\ ~locked
    /\ locked' = TRUE
    /\ \E reply \in Replies, priority \in Priorities :
         AfterPayment(t, PiteasWalletClient_send_payment(reply),
                      [client |-> "piteas", reply |-> reply, priority |-> priority,
                       request |-> _row_to_request(rows[task[t].rid]),
                       payload |-> PiteasPayload(_row_to_request(rows[task[t].rid]),
                                                 priority)])
    /\ UNCHANGED <<rows, autoinc, clock, sent, created, listeners, notified, closed, proc>>

(* --------------------------- main.py: shutdown --------------------------- *)

\* A task that has ended: it returned, it raised an exception, or it was
\* cancelled.
Done == {"returned", "raised", "cancelled"}

\* The bot task ends by itself: bot.start returns, or raises (main.py lines
\* 61-65); its done callback sets the stop event (line 68).
BotEnds ==
    /\ proc.bot = "running"
    /\ \E how \in {"returned", "raised"} : proc' = [proc EXCEPT !.bot = how]
    /\ ret' = NoReturn
    /\ UNCHANGED <<rows, autoinc, locked, clock, task, sent, outcomes, created, listeners,
                   notified, closed>>

\* The API server task ends by itself: serve returns, or raises (server.py
\* lines 108-109); its done callback sets the stop event (main.py line 59).
ServerEnds ==
    /\ proc.server = "running"
    /\ \E how \in {"returned", "raised"} : proc' = [proc EXCEPT !.server = how]
    /\ ret' = NoReturn
    /\ UNCHANGED <<rows, autoinc, locked, clock, task, sent, outcomes, created, listeners,
                   notified, closed>>

\* cancel() of a task: a request to cancel it if it has not ended.
Cancel(state) == IF state = "running" THEN "cancelling" ELSE state

\* lines 70-77: the stop event is set, by a signal or by the done callback of
\* a task; main asks the bot task to cancel, tells the server to exit
\* (server.shutdown sets a flag and does not suspend), asks the server task to
\* cancel, and waits for the bot task.
MainStops ==
    /\ proc.main = "serving"
    /\ proc' = [main |-> "await_bot", bot |-> Cancel(proc.bot),
                server |-> Cancel(proc.server)]
    /\ ret' = NoReturn
    /\ UNCHANGED <<rows, autoinc, locked, clock, task, sent, outcomes, created, listeners,
                   notified, closed>>

\* The bot task takes the cancellation: CancelledError leaves bot.start, the
\* finally block awaits bot.close (line 65), and the task ends cancelled, or
\* with the exception bot.close raised.
BotCancelled ==
    /\ proc.bot = "cancelling"
    /\ \E how \in {"cancelled", "raised"} : proc' = [proc EXCEPT !.bot = how]
    /\ ret' = NoReturn
    /\ UNCHANGED <<rows, autoinc, locked, clock, task, sent, outcomes, created, listeners,
                   notified, closed>>

\* The server task takes the cancellation, and ends cancelled, or with what
\* serve does on its way out.
ServerCancelled ==
    /\ proc.server = "cancelling"
    /\ \E how \in Done : proc' = [proc EXCEPT !.server = how]
    /\ ret' = NoReturn
    /\ UNCHANGED <<rows, autoinc, locked, clock, task, sent, outcomes, created, listeners,
                   notified, closed>>

\* lines 76-79: `await bot_task` ends.  CancelledError is suppressed; an
\* exception of the task is raised again here and leaves main.
MainAwaitsBot ==
    /\ proc.main = "await_bot"
    /\ proc.bot \in Done
    /\ proc' = [proc EXCEPT !.main = IF proc.bot = "raised" THEN "failed"
                                     ELSE "await_server"]
    /\ ret' = NoReturn
    /\ UNCHANGED <<rows, autoinc, locked, clock, task, sent, outcomes, created, listeners,
                   notified, closed>>

\* lines 78-81: `await server_task` ends, as above; then main calls
\* store.cleanup, which gets the lock (storage.py line 204).
MainAwaitsServer ==
    /\ proc.main = "await_server"
    /\ proc.server \in Done
    /\ IF proc.server = "raised"
         THEN /\ proc' = [proc EXCEPT !.main = "failed"]
              /\ UNCHANGED locked
         ELSE /\ ~locked
              /\ locked' = TRUE
              /\ proc' = [proc EXCEPT !.main = "cleanup"]
    /\ ret' = NoReturn
    /\ UNCHANGED <<rows, autoinc, clock, task, sent, outcomes, created, listeners,
                   notified, closed>>

\* storage.py line 205: the connection is closed in a thread; release; main
\* returns.
MainCleansUp ==
    /\ proc.main = "cleanup"
    /\ closed' = TRUE
    /\ locked' = FALSE
    /\ proc' = [proc EXCEPT !.main = "done"]
    /\ ret' = NoReturn
    /\ UNCHANGED <<rows, autoinc, clock, task, sent, outcomes, created, listeners,
                   notified>>

(* ------------- a listener that calls back into the Manager -------------- *)

\* The store methods a listener reaches through the Manager while the
\* dispatch waits for it: attach_message, as the bot's observer does
\* (discord_bot.py line 204), get_request and reject_request.
CallbackStages == {"set_discord_message", "get_request", "mark_rejected"}

\* Task t is the create_request whose listener has called the Manager.
InCallback(t) == task[t].op = "create" /\ task[t].stage \in CallbackStages

\* The listener the dispatch waits for (manager.py line 103) calls the
\* Manager for the request it was given; the store method asks for the lock
\* (storage.py lines 88, 97, 165).
ObserverCalls(t) ==
    /\ task[t].pc = "listener"
    /\ task[t].snapshot[task[t].next] = "observer"
    /\ LET calls == [task[t] EXCEPT !.pc = "lock", !.rid = task[t].payload[1].id]
       IN  \/ \E m \in MessageIds :
                GoesOn(t, [calls EXCEPT !.stage = "set_discord_message",
                                        !.message_id = Some(m)])
           \/ GoesOn(t, [calls EXCEPT !.stage = "get_request"])
           \/ \E a \in Admins :
                GoesOn(t, [calls EXCEPT !.stage = "mark_rejected", !.admin = Some(a)])
    /\ UNCHANGED <<rows, autoinc, locked, clock, sent, outcomes, created, listeners,
                   notified, closed, proc>>

\* `async with self._lock` of that store method: it gets the lock.
ObserverAcquires(t) ==
    /\ task[t].pc = "lock" /\ InCallback(t)
    /\ ~locked
    /\ locked' = TRUE
    /\ GoesOn(t, [task[t] EXCEPT !.pc = "cs1"])
    /\ UNCHANGED <<rows, autoinc, clock, sent, outcomes, created, listeners, notified,
                   closed, proc>>

\* get_request (storage.py lines 97-99) called by the listener: the request,
\* or WithdrawalNotFoundError, goes to the listener, which ends, and the
\* dispatch goes on.
ObserverGets(t) ==
    /\ task[t].pc = "cs1" /\ InCallback(t) /\ task[t].stage = "get_request"
    /\ ~closed
    /\ LET row == _get_row(rows, task[t].rid)
       IN  IF row = None
             THEN Fails(t, "WithdrawalNotFoundError", "", "get_request")
             ELSE Leaves(t, row[1])
    /\ locked' = FALSE
    /\ UNCHANGED <<rows, autoinc, clock, sent, outcomes, created, listeners, closed, proc>>

\* mark_rejected (lines 166-173) called by the listener.
ObserverRejectsRead(t) ==
    /\ task[t].pc = "cs1" /\ InCallback(t) /\ task[t].stage = "mark_rejected"
    /\ ~closed
    /\ LET request == _get_row(rows, task[t].rid)
       IN  IF request = None
             THEN /\ Fails(t, "WithdrawalNotFoundError", "", "mark_rejected")
                  /\ locked' = FALSE
             ELSE IF ~MarkRejectedAllowed(_row_to_request(request[1]).status)
               THEN /\ Fails(t, "WithdrawalStateError", request[1].status, "mark_rejected")
                    /\ locked' = FALSE
               ELSE /\ GoesOn(t, [task[t] EXCEPT !.pc = "cs2"])
                    /\ UNCHANGED <<locked, notified>>
    /\ UNCHANGED <<rows, autoinc, clock, sent, outcomes, created, listeners, closed, proc>>

\* mark_rejected (lines 174-184) called by the listener.
ObserverRejectsWrite(t) ==
    /\ task[t].pc = "cs2" /\ InCallback(t) /\ task[t].stage = "mark_rejected"
    /\ \E now \in ClockReads(clock) :
         /\ clock' = now
         /\ rows' = _update_row(rows, task[t].rid,
                                RejectedFields(task[t].admin[1].name, task[t].admin[1].id,
                                               task[t].reason), now)
    /\ locked' = FALSE
    /\ Leaves(t, rows'[task[t].rid])
    /\ UNCHANGED <<autoinc, sent, outcomes, created, listeners, closed, proc>>

(* ---------------------------- specifications ---------------------------- *)

\* The steps of approve_request after its call.
Approving(t) ==
    \/ MarkProcessingRead(t) \/ MarkProcessingWrite(t)
    \/ SendPaymentReturns(t) \/ SendPaymentRaises(t)
    \/ MarkApprovedRead(t) \/ MarkApprovedWrite(t)
    \/ MarkFailedRead(t) \/ MarkFailedWrite(t)

\* Spec: NumTasks coroutines call every Manager operation on a table of at
\* most MaxRequests rows.
Next ==
    \E t \in Tasks :
        \/ CallCreate(t, MaxRequests) \/ AcquireCreate(t) \/ InsertRow(t)
        \/ CallApprove(t, 1..(MaxRequests + 1)) \/ Approving(t)
        \/ CallReject(t, 1..(MaxRequests + 1))
        \/ MarkRejectedRead(t) \/ MarkRejectedWrite(t)
        \/ CallAttach(t, 1..(MaxRequests + 1)) \/ SetDiscordMessage(t)
        \/ CallGet(t, 1..(MaxRequests + 1)) \/ GetRequest(t)
        \/ CallList(t) \/ ListRequests(t)

Spec == Init /\ [][Next]_vars

\* SpecTable: NumTableTasks coroutines create, reject and list on a table of
\* at most MaxTableRows rows.
NextTable ==
    \E t \in 1..NumTableTasks :
        \/ CallCreate(t, MaxTableRows) \/ AcquireCreate(t) \/ InsertRow(t)
        \/ CallReject(t, 1..MaxTableRows)
        \/ MarkRejectedRead(t) \/ MarkRejectedWrite(t)
        \/ CallList(t) \/ ListRequests(t)

SpecTable == Init /\ [][NextTable]_vars

\* SpecObservers: listeners get registered while NumTableTasks coroutines
\* create requests and read them back; the bot's observer attaches the message
\* it posted.
NextObservers ==
    \/ \E kind \in ListenerKinds : AddListener(kind)
    \/ \E t \in 1..NumTableTasks :
          \/ CallCreate(t, MaxTableRows) \/ AcquireCreate(t) \/ InsertRow(t)
          \/ ListenerEnds(t) \/ ObserverAttaches(t) \/ SetDiscordMessage(t)
          \/ CallGet(t, 1..MaxTableRows) \/ GetRequest(t)

SpecObservers == Init /\ [][NextObservers]_vars

\* SpecStore: NumTableTasks coroutines call the methods of the Store, cleanup
\* among them, on a table of at most MaxRequests rows.
NextStore ==
    \E t \in 1..NumTableTasks :
        \/ CallCreate(t, MaxRequests) \/ AcquireCreate(t) \/ InsertRow(t)
        \/ CallGet(t, 1..(MaxRequests + 1)) \/ GetRequest(t)
        \/ CallList(t) \/ ListRequests(t)
        \/ CallAttach(t, 1..(MaxRequests + 1)) \/ SetDiscordMessage(t)
        \/ CallMarkProcessing(t, 1..(MaxRequests + 1))
        \/ MarkProcessingRead(t) \/ MarkProcessingWrite(t)
        \/ CallMarkApproved(t, 1..(MaxRequests + 1))
        \/ MarkApprovedRead(t) \/ MarkApprovedWrite(t)
        \/ CallReject(t, 1..(MaxRequests + 1))
        \/ MarkRejectedRead(t) \/ MarkRejectedWrite(t)
        \/ CallMarkFailed(t, 1..(MaxRequests + 1))
        \/ MarkFailedRead(t) \/ MarkFailedWrite(t)
        \/ CallCleanup(t) \/ Close(t) \/ OperateOnClosed(t)

SpecStore == Init /\ [][NextStore]_vars

\* SpecIntake: NumTableTasks coroutines serve POST /withdrawals and read the
\* requests back.
NextIntake ==
    \E t \in 1..NumTableTasks :
        \/ create_withdrawal(t, MaxTableRows) \/ AcquireCreate(t) \/ InsertRow(t)
        \/ CallGet(t, 1..MaxTableRows) \/ GetRequest(t)

SpecIntake == Init /\ [][NextIntake]_vars

\* The operations of the Manager, as one coroutine calls them on a table of at
\* most MaxRequests rows.
Managing(t) ==
    \/ CallCreate(t, MaxRequests) \/ AcquireCreate(t) \/ InsertRow(t)
    \/ CallApprove(t, 1..(MaxRequests + 1)) \/ Approving(t)
    \/ CallReject(t, 1..(MaxRequests + 1))
    \/ MarkRejectedRead(t) \/ MarkRejectedWrite(t)
    \/ CallAttach(t, 1..(MaxRequests + 1)) \/ SetDiscordMessage(t)
    \/ CallGet(t, 1..(MaxRequests + 1)) \/ GetRequest(t)
    \/ CallList(t) \/ ListRequests(t)

\* SpecAbandon: NumTableTasks coroutines call the Manager; an approve_request
\* may be cancelled during its payment, and the process may stop and start
\* again.
NextAbandon ==
    \/ \E t \in 1..NumTableTasks : Managing(t) \/ CancelPayment(t)
    \/ Crash

SpecAbandon == Init /\ [][NextAbandon]_vars

\* What a coroutine inside a critical section does next: the thread call it
\* waits for ends.
StoreStep(t) ==
    \/ InsertRow(t) \/ MarkProcessingRead(t) \/ MarkProcessingWrite(t)
    \/ MarkApprovedRead(t) \/ MarkApprovedWrite(t)
    \/ MarkFailedRead(t) \/ MarkFailedWrite(t)
    \/ MarkRejectedRead(t) \/ MarkRejectedWrite(t)
    \/ SetDiscordMessage(t) \/ GetRequest(t) \/ ListRequests(t)

\* The payment executor answers, and the coroutine is granted the lock for the
\* store call that follows.
ExecutorAnswers(t) == SendPaymentReturns(t) \/ SendPaymentRaises(t)

\* SpecLive: NumTableTasks coroutines call the Manager and none is cancelled.
\* A thread call ends (weak fairness of the step inside a critical section);
\* the executor answers and asyncio.Lock, which wakes its waiters in the order
\* they came, grants the lock (strong fairness, as the lock is free again and
\* again while others use the store).
NextLive == \E t \in 1..NumTableTasks : Managing(t)

Fairness ==
    \A t \in 1..NumTableTasks :
        WF_vars(StoreStep(t)) /\ SF_vars(ExecutorAnswers(t))

SpecLive == Init /\ [][NextLive]_vars /\ Fairness

\* SpecWallet: a coroutine creates requests and approves them, the wallet
\* being one of the two HTTP clients.
NextWallet ==
    \E t \in 1..(NumTableTasks - 1) :
        \/ CallCreateWithMemo(t, MaxRequests) \/ AcquireCreate(t) \/ InsertRow(t)
        \/ CallApprove(t, 1..MaxRequests)
        \/ MarkProcessingRead(t) \/ MarkProcessingWrite(t)
        \/ HTTPWalletAnswers(t) \/ PiteasWalletAnswers(t)
        \/ MarkApprovedRead(t) \/ MarkApprovedWrite(t)
        \/ MarkFailedRead(t) \/ MarkFailedWrite(t)

SpecWallet == Init /\ [][NextWallet]_vars

\* SpecShutdown: main goes through its shutdown while NumTableTasks handlers
\* of the bot and of the API create, read and approve requests.
NextShutdown ==
    \/ BotEnds \/ ServerEnds \/ MainStops \/ BotCancelled \/ ServerCancelled
    \/ MainAwaitsBot \/ MainAwaitsServer \/ MainCleansUp
    \/ \E t \in 1..NumTableTasks :
          \/ CallCreate(t, MaxRequests) \/ AcquireCreate(t) \/ InsertRow(t)
          \/ CallApprove(t, 1..MaxRequests) \/ Approving(t)
          \/ CallGet(t, 1..MaxRequests) \/ GetRequest(t)
          \/ OperateOnClosed(t)

SpecShutdown == Init /\ [][NextShutdown]_vars

\* SpecTransitions: the checked transitions of the store, called directly on
\* a table of up to MaxTableRows requests and on an id that is not in it.
NextTransitions ==
    \E t \in 1..NumTableTasks :
        \/ CallCreate(t, MaxTableRows) \/ AcquireCreate(t) \/ InsertRow(t)
        \/ CallMarkProcessing(t, 1..(MaxTableRows + 1))
        \/ MarkProcessingRead(t) \/ MarkProcessingWrite(t)
        \/ CallMarkApproved(t, 1..(MaxTableRows + 1))
        \/ MarkApprovedRead(t) \/ MarkApprovedWrite(t)
        \/ CallReject(t, 1..(MaxTableRows + 1))
        \/ MarkRejectedRead(t) \/ MarkRejectedWrite(t)

SpecTransitions == Init /\ [][NextTransitions]_vars

\* SpecFrame: the operations of the Manager, one call after another, on a
\* table of up to MaxTableRows requests.
NextFrame ==
    \/ CallCreate(1, MaxTableRows) \/ AcquireCreate(1) \/ InsertRow(1)
    \/ CallApprove(1, 1..MaxTableRows) \/ Approving(1)
    \/ CallReject(1, 1..MaxTableRows)
    \/ MarkRejectedRead(1) \/ MarkRejectedWrite(1)
    \/ CallAttach(1, 1..MaxTableRows) \/ SetDiscordMessage(1)
    \/ CallGet(1, 1..MaxTableRows) \/ GetRequest(1)
    \/ CallList(1) \/ ListRequests(1)

SpecFrame == Init /\ [][NextFrame]_vars

\* The coroutine whose create_request has listeners that call back, and the
\* coroutine that calls the Manager meanwhile.
Creator == 1
Caller == 2

\* What a coroutine does once it is inside a store method.
CallbackStoreStep(t) ==
    \/ StoreStep(t) \/ ObserverGets(t) \/ ObserverRejectsRead(t) \/ ObserverRejectsWrite(t)

\* SpecCallbacks: the listeners of the create_request of one coroutine call
\* back into the Manager while another coroutine creates, approves, rejects
\* and reads requests.  A thread call ends (weak fairness); asyncio.Lock wakes
\* its waiters in the order they came, so a coroutine that waits for the lock
\* gets it (strong fairness), and so does the payment executor's answer.
NextCallbacks ==
    \/ AddListener("observer") \/ AddListener("returns")
    \/ CallCreate(Creator, MaxRequests) \/ AcquireCreate(Creator) \/ InsertRow(Creator)
    \/ ListenerEnds(Creator) \/ ObserverCalls(Creator) \/ ObserverAcquires(Creator)
    \/ SetDiscordMessage(Creator) \/ ObserverGets(Creator)
    \/ ObserverRejectsRead(Creator) \/ ObserverRejectsWrite(Creator)
    \/ CallApprove(Caller, 1..MaxRequests) \/ Approving(Caller)
    \/ CallReject(Caller, 1..MaxRequests)
    \/ MarkRejectedRead(Caller) \/ MarkRejectedWrite(Caller)
    \/ CallGet(Caller, 1..MaxRequests) \/ GetRequest(Caller)

FairnessCallbacks ==
    /\ WF_vars(CallbackStoreStep(Creator)) /\ WF_vars(CallbackStoreStep(Caller))
    /\ SF_vars(AcquireCreate(Creator)) /\ SF_vars(ObserverAcquires(Creator))
    /\ SF_vars(ExecutorAnswers(Caller))

SpecCallbacks == Init /\ [][NextCallbacks]_vars /\ FairnessCallbacks

(* ================================ claims ================================ *)

\* Task t is in an approve_request of request id that has called send_payment.
ReachedExecutor(t, id) ==
    /\ task[t].op = "approve" /\ task[t].rid = id
    /\ task[t].stage \in {"send_payment", "mark_approved", "mark_failed"}

\* A Manager call ended in the last step.
Ended(op) == ret.kind # "none" /\ ret.op = op

\* C1: over a whole run, whatever the interleaving of create, approve and
\* reject calls, send_payment is invoked at most once for each request.
C1_PaidAtMostOnce == \A id \in Ids : sent[id] <= 1

\* C1 witness: the one payment sent for request 1 has failed, the failure is
\* recorded, and every coroutine is idle again.
C1_Witness ==
    /\ sent[1] = 1 /\ 1 \in DOMAIN rows /\ rows[1].status = FAILED
    /\ \A t \in Tasks : task[t].pc = "idle"

\* C2: of two approve_request calls that run at the same time on one request,
\* one reaches the payment executor and the other is refused by mark_processing
\* with WithdrawalStateError, without reaching it: no two calls are past
\* mark_processing for one request, a call that ends while another one is past
\* it was refused there, and a call refused because an approve_request had
\* moved the request on comes after exactly one invocation of send_payment.
C2_OneOfTwoApprovesPays ==
    /\ \A id \in Ids : Cardinality({ t \in Tasks : ReachedExecutor(t, id) }) <= 1
    /\ \A u \in Tasks :
          (Ended("approve") /\ ReachedExecutor(u, ret.rid))
             => /\ ret.kind = "WithdrawalStateError" /\ ret.by = "mark_processing"
                /\ ret.txid = None
                /\ sent[ret.rid] = 1
    /\ ( /\ Ended("approve") /\ ret.kind = "WithdrawalStateError"
         /\ ret.by = "mark_processing"
         /\ ret.status \in {PROCESSING, APPROVED, FAILED} )
          => sent[ret.rid] = 1

\* C2 witness: an approve_request of request 1 has just been refused while
\* another one has its payment in flight.
C2_Witness ==
    /\ Ended("approve") /\ ret.rid = 1 /\ ret.kind = "WithdrawalStateError"
    /\ \E u \in Tasks : ReachedExecutor(u, 1) /\ task[u].stage = "send_payment"
    /\ rows[1].status = PROCESSING

\* The status changes the lifecycle allows.
AllowedTransitions ==
    { <<PENDING, PROCESSING>>, <<PENDING, REJECTED>>, <<PROCESSING, APPROVED>>,
      <<PROCESSING, REJECTED>>, <<PROCESSING, FAILED>> }

\* C3 witness: request 1, rejected by an actor while its payment was in
\* flight, is failed.
C3_Witness ==
    /\ 1 \in DOMAIN rows /\ rows[1].status = FAILED /\ rows[1].approved_by # None

\* C3: a request's status changes only along pending -> processing,
\* pending -> rejected, processing -> approved, processing -> rejected and
\* processing -> failed; approved, rejected and failed are final and no request
\* returns to pending.
C3_StatusTransitions ==
    [][\A id \in DOMAIN rows :
          rows'[id].status # rows[id].status
             => <<rows[id].status, rows'[id].status>> \in AllowedTransitions]_vars

\* C4: every persisted request has a transaction_id exactly when its status
\* is approved.
C4_TransactionIdIffApproved ==
    \A id \in DOMAIN rows :
        (rows[id].transaction_id # None) <=> (rows[id].status = APPROVED)

\* C4 witness: request 1 is approved and carries the wallet's transaction id.
C4_Witness ==
    /\ 1 \in DOMAIN rows /\ rows[1].status = APPROVED
    /\ rows[1].transaction_id \in { Some(tx) : tx \in TxIds }

\* C5: approve_request on a request whose status is not pending raises
\* WithdrawalStateError naming that status, does not invoke send_payment and
\* changes no row.
C5_ApproveOfNonPendingRefused ==
    [][\A t \in Tasks :
          ( /\ task[t].stage = "mark_processing" /\ task[t].pc = "cs1"
            /\ task[t].rid \in DOMAIN rows
            /\ rows[task[t].rid].status # PENDING
            /\ task'[t] # task[t] )
          => /\ ret'.kind = "WithdrawalStateError" /\ ret'.op = "approve" /\ ret'.task = t
             /\ ret'.status = rows[task[t].rid].status
             /\ task'[t].pc = "idle"
             /\ sent' = sent
             /\ rows' = rows]_vars

\* C5 witness: an approve_request of a request whose payment had failed has
\* been refused, and the error names the status failed.
C5_Witness ==
    /\ Ended("approve") /\ ret.kind = "WithdrawalStateError"
    /\ ret.by = "mark_processing" /\ ret.status = FAILED

\* C6: whenever send_payment returns a transaction id within an
\* approve_request, that call records status approved with that transaction
\* id and the actor's name and id, and returns the approved request, whatever
\* other calls are interleaved with it.
C6_PaidIsRecordedApproved ==
    (Ended("approve") /\ ret.txid # None)
       => /\ ret.kind = "ok"
          /\ ret.row # None
          /\ ret.row[1].status = APPROVED
          /\ ret.row[1].transaction_id = ret.txid
          /\ ret.row[1].approved_by = Some(ret.admin[1].name)
          /\ ret.row[1].approved_by_id = Some(ret.admin[1].id)
          /\ rows[ret.rid].status = APPROVED
          /\ rows[ret.rid].transaction_id = ret.txid

\* C6 witness: an approve_request whose payment returned a transaction id has
\* ended with WithdrawalStateError, and the request is rejected.
C6_Witness ==
    /\ Ended("approve") /\ ret.txid # None /\ ret.kind = "WithdrawalStateError"
    /\ rows[ret.rid].status = REJECTED /\ rows[ret.rid].transaction_id = None

\* The payment of request id raised, and mark_failed has run for it.
FailureRecorded(id, e) ==
    /\ \E i \in DOMAIN outcomes[id] : outcomes[id][i] = [returned |-> FALSE, value |-> e]
    /\ \A t \in Tasks : ~ReachedExecutor(t, id)

\* C7: when send_payment raises within an approve_request, the request's
\* status becomes failed with failure_reason the string of the exception, the
\* call raises WalletError, and a later get_request still returns that reason.
C7_PaymentFailureRecorded ==
    /\ (Ended("approve") /\ ret.reason # None)
          => /\ ret.kind = "WalletError"
             /\ rows[ret.rid].status = FAILED
             /\ rows[ret.rid].failure_reason = ret.reason
    /\ \A id \in DOMAIN rows, e \in ErrMsgs :
          FailureRecorded(id, e)
             => /\ rows[id].status = FAILED
                /\ rows[id].failure_reason = Some(e)
                /\ (Ended("get") /\ ret.rid = id)
                      => /\ ret.kind = "ok"
                         /\ ret.row[1].status = FAILED
                         /\ ret.row[1].failure_reason = Some(e)

\* C7 witness: a get_request made after the failed payment of request 1 has
\* returned the request as failed with the exception's string.
C7_Witness ==
    /\ Ended("get") /\ ret.rid = 1 /\ ret.kind = "ok"
    /\ \E e \in ErrMsgs :
          /\ FailureRecorded(1, e)
          /\ ret.row[1].status = FAILED /\ ret.row[1].failure_reason = Some(e)

\* C8: once a reject_request has succeeded, the status, the actor's name and
\* id and the reason it wrote stay as they are from then on.
C8_RejectionPersists ==
    [][\A id \in DOMAIN rows :
          rows[id].status = REJECTED
             => /\ rows'[id].status = REJECTED
                /\ rows'[id].approved_by = rows[id].approved_by
                /\ rows'[id].approved_by_id = rows[id].approved_by_id
                /\ rows'[id].failure_reason = rows[id].failure_reason]_vars

\* C8 witness: a reject_request that follows a successful one has been refused,
\* and by then the request is failed.
C8_Witness ==
    /\ Ended("reject") /\ ret.kind = "WithdrawalStateError" /\ ret.status = FAILED
    /\ rows[ret.rid].status = FAILED /\ rows[ret.rid].approved_by # None

\* C8, call by call: reject_request on a pending or processing request
\* succeeds and sets status rejected, the actor's name and id, and
\* failure_reason to the given reason; a reject_request on a request already
\* rejected raises WithdrawalStateError and leaves every field of every row as
\* it was.
RejectThenRejectAgain ==
    [][\A t \in Tasks :
          ( /\ task[t].stage = "mark_rejected"
            /\ task[t].rid \in DOMAIN rows
            /\ task'[t] # task[t] )
          => LET id == task[t].rid IN
             /\ (task[t].pc = "cs1" /\ rows[id].status \in {PENDING, PROCESSING})
                   => (task'[t].pc = "cs2" /\ rows' = rows)
             /\ task[t].pc = "cs2"
                   => /\ ret'.kind = "ok" /\ ret'.op = "reject" /\ ret'.task = t
                      /\ rows'[id].status = REJECTED
                      /\ rows'[id].approved_by = Some(task[t].admin[1].name)
                      /\ rows'[id].approved_by_id = Some(task[t].admin[1].id)
                      /\ rows'[id].failure_reason = task[t].reason
                      /\ ret'.row = Some(_row_to_request(rows'[id]))
             /\ (task[t].pc = "cs1" /\ rows[id].status = REJECTED)
                   => /\ ret'.kind = "WithdrawalStateError" /\ ret'.task = t
                      /\ ret'.status = REJECTED
                      /\ rows' = rows]_vars

\* C9: every create_request returns a request with status pending and no
\* transaction id, actor or failure reason, and no two of the ids it returned
\* over the run are the same.
C9_CreatedPendingWithFreshId ==
    /\ Ended("create")
          => /\ ret.kind = "ok"
             /\ ret.row[1].status = PENDING
             /\ ret.row[1].transaction_id = None
             /\ ret.row[1].approved_by = None
             /\ ret.row[1].approved_by_id = None
             /\ ret.row[1].failure_reason = None
             /\ ret.row[1].id = created[Len(created)]
    /\ \A i, j \in DOMAIN created : i # j => created[i] # created[j]

\* C9 witness: a second create_request has returned, with id 2.
C9_Witness ==
    /\ Ended("create") /\ Len(created) = 2 /\ ret.row[1].id = 2

\* The rows of a list result are persisted as pending, as returned.
ListedArePending(l) ==
    \A i \in DOMAIN l :
        /\ l[i].id \in DOMAIN rows
        /\ rows[l[i].id].status = PENDING
        /\ l[i] = _row_to_request(rows[l[i].id])
\* A list result is ordered by creation time, newest first, without repeats.
ListedNewestFirst(l) ==
    \A i, j \in DOMAIN l :
        i < j => (l[i].created_at >= l[j].created_at /\ l[i].id # l[j].id)
\* The pending rows a list result leaves out.
Omitted(l) ==
    { id \in DOMAIN rows :
        rows[id].status = PENDING /\ \A i \in DOMAIN l : l[i].id # id }

Positions(n) == [i \in 1..n |-> i]

\* C11: every create_request returns the request it created, whatever its
\* listeners did: by then every listener of the snapshot has been called, in
\* order, those after a listener that raised included, and the persisted row
\* is the row that was inserted, but for the message reference an observer
\* attached.
C11_ObserverFailureContained ==
    Ended("create")
       => /\ ret.kind = "ok"
          /\ ret.row # None
          /\ LET id == ret.row[1].id IN
             /\ id \in DOMAIN rows
             /\ notified[id].called = Positions(Len(notified[id].snapshot))
             /\ _row_to_request([rows[id] EXCEPT
                                    !.discord_message_id = None,
                                    !.updated_at = ret.row[1].updated_at]) = ret.row[1]
             /\ (\A i \in DOMAIN notified[id].snapshot :
                    notified[id].snapshot[i] # "observer")
                   => _row_to_request(rows[id]) = ret.row[1]

\* C11 witness: a create_request has returned whose first listener raised and
\* whose second listener was called after it.
C11_Witness ==
    /\ Ended("create") /\ ret.kind = "ok"
    /\ notified[ret.row[1].id].snapshot = <<"raises", "returns">>
    /\ notified[ret.row[1].id].called = <<1, 2>>

\* C12: in the step in which a listener is called with a request, the row of
\* that request is in the table, so that get_request finds it, and the
\* create_request that calls the listener does not hold or wait for the
\* store lock.
C12_NotifiedAfterPersisted ==
    [][\A id \in Ids :
          notified'[id].called # notified[id].called
             => /\ _get_row(rows', id) # None
                /\ \A t \in Tasks :
                      task'[t] # task[t] => task'[t].pc \notin {"lock", "cs1", "cs2"}]_vars

\* C12 witness: while the create_request of request 1 waits for a listener it
\* has called, a get_request has returned request 1.
C12_Witness ==
    /\ Ended("get") /\ ret.kind = "ok" /\ ret.rid = 1
    /\ \E t \in Tasks : task[t].pc = "listener" /\ task[t].payload[1].id = 1

\* The coroutines inside the `async with self._lock` block of a Store method.
Holders == { t \in Tasks : task[t].pc \in {"cs1", "cs2"} }

\* C13: the store lock is held exactly while some Store method is inside its
\* critical section, at most one is inside at a time, every change of the
\* table, of the key sequence and of the connection is made by the one inside,
\* and while a method is between its status check and its update no step of
\* another coroutine changes the table.
C13_StoreLockSerialises ==
    [][/\ locked <=> Holders # {}
       /\ Cardinality(Holders) <= 1
       /\ (rows' # rows \/ autoinc' # autoinc \/ closed' # closed)
             => \E t \in Holders : task'[t] # task[t]
       /\ \A t \in Tasks :
             (task[t].pc = "cs2" /\ task'[t] = task[t]) => rows' = rows]_vars

\* C13 witness: mark_approved, called on a processing request, holds the lock
\* between its status check and its update.
C13_Witness ==
    /\ locked
    /\ \E t \in Tasks :
          /\ task[t].pc = "cs2" /\ task[t].stage = "mark_approved"
          /\ rows[task[t].rid].status = PROCESSING

\* C14: while a send_payment is in flight its approve_request does not hold
\* the store lock: the lock is free, and then any idle coroutine can enter
\* get, list, reject and approve, on the same request too, and a waiting
\* create can enter its insert; or it is held by another coroutine's method,
\* which can take its next step.
C14_PaymentOutsideLock ==
    \A t \in Tasks :
        task[t].pc = "wallet"
           => /\ t \notin Holders
              /\ locked
                    => \E u \in Holders : u # t /\ ENABLED StoreStep(u)
              /\ ~locked
                    => \A u \in Tasks :
                          /\ task[u].pc = "idle"
                                => /\ ENABLED CallGet(u, {task[t].rid})
                                   /\ ENABLED CallReject(u, {task[t].rid})
                                   /\ ENABLED CallApprove(u, {task[t].rid})
                                   /\ ENABLED CallList(u)
                          /\ task[u].pc = "lock" => ENABLED AcquireCreate(u)

\* C14 witness: a reject_request of the request whose payment is in flight
\* has returned the rejected request.
C14_Witness ==
    /\ Ended("reject") /\ ret.kind = "ok"
    /\ \E t \in Tasks : task[t].pc = "wallet" /\ task[t].rid = ret.rid

\* C15: every persisted request that carries a failure_reason has status
\* failed or rejected.
C15_FailureReasonOnlyIfFailedOrRejected ==
    \A id \in DOMAIN rows :
        rows[id].failure_reason # None => rows[id].status \in {FAILED, REJECTED}

\* C15 witness: request 1 is rejected with the reason the actor gave.
C15_Witness ==
    /\ 1 \in DOMAIN rows /\ rows[1].status = REJECTED
    /\ rows[1].failure_reason = Some("policy")

\* C16: once a request has a message reference, no step changes it.
C16_MessageReferenceSetOnce ==
    [][\A id \in DOMAIN rows :
          rows[id].discord_message_id # None
             => rows'[id].discord_message_id = rows[id].discord_message_id]_vars

\* C16 witness: set_discord_message holds the lock to write reference 102 on
\* request 1, which carries reference 101.
C16_Witness ==
    /\ 1 \in DOMAIN rows /\ rows[1].discord_message_id = Some(101)
    /\ \E t \in Tasks :
          /\ task[t].pc = "cs1" /\ task[t].stage = "set_discord_message"
          /\ task[t].rid = 1 /\ task[t].message_id = Some(102)

\* The actor columns of a row.
Actor(row) == <<row.approved_by, row.approved_by_id>>

\* C17: the actor columns of a request change in one kind of step only: the
\* update of the approve_request or reject_request that moves the request
\* from pending or processing to approved or rejected, which writes the name
\* and id of its own actor into columns that were empty.
C17_ActorWrittenOnce ==
    [][\A id \in DOMAIN rows :
          Actor(rows'[id]) # Actor(rows[id])
             => /\ Actor(rows[id]) = <<None, None>>
                /\ rows[id].status \in {PENDING, PROCESSING}
                /\ rows'[id].status \in {APPROVED, REJECTED}
                /\ \E t \in Tasks :
                      /\ task[t].pc = "cs2" /\ task[t].rid = id
                      /\ task[t].op \in {"approve", "reject"}
                      /\ task'[t] # task[t]
                      /\ Actor(rows'[id]) = <<Some(task[t].admin[1].name),
                                               Some(task[t].admin[1].id)>>]_vars

\* C17 witness: the approve_request of one actor has ended in an error on a
\* request that carries the name of the other actor, who rejected it.
C17_Witness ==
    /\ Ended("approve") /\ ret.kind = "WithdrawalStateError" /\ ret.txid # None
    /\ rows[ret.rid].status = REJECTED
    /\ rows[ret.rid].approved_by # None
    /\ rows[ret.rid].approved_by # Some(ret.admin[1].name)

\* C18: updated_at of a persisted request is never before its created_at, and
\* every step that changes a row leaves in updated_at the clock value read at
\* that write, which is not before the value it replaces.
C18_UpdatedAtFollowsClock ==
    [][\A id \in DOMAIN rows' :
          /\ rows'[id].updated_at >= rows'[id].created_at
          /\ (id \in DOMAIN rows /\ rows'[id] # rows[id])
                => /\ rows'[id].updated_at = clock'
                   /\ rows'[id].updated_at >= rows[id].updated_at
                   /\ rows'[id].created_at = rows[id].created_at]_vars

\* C18 witness: request 1, created at clock value 0, has been updated at
\* clock value 1.
C18_Witness ==
    /\ 1 \in DOMAIN rows
    /\ rows[1].created_at = 0 /\ rows[1].updated_at = 1 /\ rows[1].status = APPROVED

\* C19: no request persisted through POST /withdrawals has an amount that is
\* not strictly positive, an empty currency or an empty wallet address.
C19_IntakeValidates ==
    \A id \in DOMAIN rows :
        /\ \A n \in IntakeAmounts : rows[id].amount = DecimalStr(n) => n > 0
        /\ rows[id].currency # ""
        /\ rows[id].wallet_address # ""

\* C19 witness: a POST /withdrawals with a positive amount, an empty currency
\* and an empty wallet address has returned the request it created.
C19_Witness ==
    /\ Ended("create") /\ ret.kind = "ok"
    /\ ret.row[1].currency = "" /\ ret.row[1].wallet_address = ""
    /\ ret.row[1].amount = DecimalStr(2)

\* The Store methods that look a request up by its id.
LooksUp ==
    {"get_request", "set_discord_message", "mark_processing", "mark_approved",
     "mark_rejected", "mark_failed"}

\* C20: on an open connection, a Store method that looks up an id for which
\* no row exists raises WithdrawalNotFoundError and leaves the table and the
\* key sequence as they were; and no call raises WithdrawalNotFoundError for
\* an id that a create_request has assigned.
C20_UnknownIdNotFound ==
    [][/\ \A t \in Tasks :
             ( /\ task[t].pc = "cs1" /\ task[t].stage \in LooksUp
               /\ ~closed
               /\ task[t].rid \notin DOMAIN rows
               /\ task'[t] # task[t] )
             => /\ ret'.kind = "WithdrawalNotFoundError" /\ ret'.task = t
                /\ ret'.rid = task[t].rid
                /\ rows' = rows /\ autoinc' = autoinc
       /\ ret'.kind = "WithdrawalNotFoundError"
             => \A i \in DOMAIN created' : created'[i] # ret'.rid]_vars

\* C20 witness: with request 1 in the table, a mark_failed for id 2 has raised
\* WithdrawalNotFoundError.
C20_Witness ==
    /\ Ended("mark_failed") /\ ret.kind = "WithdrawalNotFoundError" /\ ret.rid = 2
    /\ DOMAIN rows = {1}

\* Request id is in processing and no approve_request is at work on it.
Abandoned(id) ==
    /\ id \in DOMAIN rows /\ rows[id].status = PROCESSING
    /\ \A t \in Tasks : ~ReachedExecutor(t, id)

\* C21: a step that abandons an approve_request after its mark_processing
\* (cancellation during send_payment, or the process stopping) writes nothing;
\* and a request left in processing that way stays there: no step invokes
\* send_payment for it, every approve_request on it is refused by
\* mark_processing with WithdrawalStateError naming processing, and the one
\* step that changes its status is the update of a reject_request, to rejected.
C21_AbandonedStaysProcessing ==
    [][\A id \in DOMAIN rows :
          /\ \A t \in Tasks :
                ( /\ ReachedExecutor(t, id) /\ task'[t] = Idle
                  /\ ret'.kind \in {"CancelledError", "none"} )
                => rows' = rows
          /\ Abandoned(id)
                => /\ rows'[id].status \in {PROCESSING, REJECTED}
                   /\ sent'[id] = sent[id]
                   /\ rows'[id].status # PROCESSING
                         => \E t \in Tasks :
                               /\ task[t].op = "reject" /\ task[t].pc = "cs2"
                               /\ task[t].rid = id
                               /\ ret'.kind = "ok" /\ ret'.op = "reject" /\ ret'.task = t
                   /\ \A t \in Tasks :
                         ( /\ task[t].op = "approve" /\ task[t].rid = id
                           /\ task'[t] # task[t] )
                         => \/ /\ ret'.kind = "WithdrawalStateError" /\ ret'.task = t
                               /\ ret'.by = "mark_processing" /\ ret'.status = PROCESSING
                            \/ task'[t] = Idle /\ ret' = NoReturn]_vars

\* C21 witness: request 1 was left in processing by an approve_request that
\* was cancelled during its payment, and a later approve_request has been
\* refused.
C21_Witness ==
    /\ Abandoned(1) /\ sent[1] = 1 /\ outcomes[1] = << >>
    /\ Ended("approve") /\ ret.kind = "WithdrawalStateError" /\ ret.rid = 1
    /\ ret.status = PROCESSING

\* C22: with an executor that answers, a lock that is granted fairly and no
\* cancellation, every request that is in processing comes to be approved,
\* rejected or failed, and every approve_request that has a payment in flight
\* comes to return or raise.
C22_ProcessingIsSettled ==
    /\ \A id \in Ids :
          (id \in DOMAIN rows /\ rows[id].status = PROCESSING)
             ~> (id \in DOMAIN rows /\ rows[id].status \in {APPROVED, REJECTED, FAILED})
    /\ \A t \in Tasks :
          (task[t].op = "approve" /\ task[t].pc = "wallet")
             ~> (Ended("approve") /\ ret.task = t)

\* C22 witness: the approve_request that moved request 1 to processing has
\* returned it approved.
C22_Witness ==
    /\ Ended("approve") /\ ret.kind = "ok" /\ ret.rid = 1
    /\ rows[1].status = APPROVED /\ sent[1] = 1

\* C23: Store.mark_failed on an existing request makes no status check: for
\* any status it goes from its lookup to its update without writing, and the
\* update sets status failed and failure_reason to the given reason, leaves
\* transaction_id, approved_by, approved_by_id and discord_message_id and every
\* other row as they were, and returns the request as persisted.
C23_MarkFailedAnyStatus ==
    [][\A t \in Tasks :
          ( /\ task[t].stage = "mark_failed" /\ task[t].pc \in {"cs1", "cs2"}
            /\ task[t].rid \in DOMAIN rows /\ ~closed
            /\ task'[t] # task[t] )
          => LET id == task[t].rid IN
             /\ task[t].pc = "cs1" => (task'[t].pc = "cs2" /\ rows' = rows)
             /\ task[t].pc = "cs2"
                   => /\ ret'.kind = "ok" /\ ret'.task = t
                      /\ rows'[id].status = FAILED
                      /\ rows'[id].failure_reason = task[t].reason
                      /\ rows'[id].transaction_id = rows[id].transaction_id
                      /\ rows'[id].approved_by = rows[id].approved_by
                      /\ rows'[id].approved_by_id = rows[id].approved_by_id
                      /\ rows'[id].discord_message_id = rows[id].discord_message_id
                      /\ ret'.row = Some(_row_to_request(rows'[id]))
                      /\ \A other \in DOMAIN rows \ {id} : rows'[other] = rows[other]]_vars

\* C23 witness: mark_failed, called on an approved request that carries a
\* message reference, has returned it failed, with its transaction id, actor
\* and message reference in place.
C23_Witness ==
    /\ Ended("mark_failed") /\ ret.kind = "ok"
    /\ ret.row[1].status = FAILED /\ ret.row[1].failure_reason # None
    /\ ret.row[1].transaction_id # None /\ ret.row[1].approved_by # None
    /\ ret.row[1].discord_message_id # None

\* C24: Store.mark_approved on an existing request goes on to its update
\* exactly when the status is pending or processing, and otherwise raises
\* WithdrawalStateError naming the status and writes nothing; the update sets
\* status approved, the actor's name and id and the transaction id, sets
\* failure_reason to null, and returns the request as persisted.
C24_MarkApprovedContract ==
    [][\A t \in Tasks :
          ( /\ task[t].stage = "mark_approved" /\ task[t].pc \in {"cs1", "cs2"}
            /\ task[t].rid \in DOMAIN rows /\ ~closed
            /\ task'[t] # task[t] )
          => LET id == task[t].rid IN
             /\ (task[t].pc = "cs1" /\ rows[id].status \in {PENDING, PROCESSING})
                   => (task'[t].pc = "cs2" /\ rows' = rows)
             /\ (task[t].pc = "cs1" /\ rows[id].status \notin {PENDING, PROCESSING})
                   => /\ ret'.kind = "WithdrawalStateError" /\ ret'.task = t
                      /\ ret'.by = "mark_approved" /\ ret'.status = rows[id].status
                      /\ rows' = rows
             /\ task[t].pc = "cs2"
                   => /\ ret'.kind = "ok" /\ ret'.task = t
                      /\ rows[id].status \in {PENDING, PROCESSING}
                      /\ rows'[id].status = APPROVED
                      /\ rows'[id].approved_by = Some(task[t].admin[1].name)
                      /\ rows'[id].approved_by_id = Some(task[t].admin[1].id)
                      /\ rows'[id].transaction_id = task[t].txid
                      /\ rows'[id].failure_reason = None
                      /\ ret'.row = Some(_row_to_request(rows'[id]))]_vars

\* C24 witness: mark_approved, called on a request, has returned it approved
\* with the actor and transaction id it was given.
C24_Witness ==
    /\ Ended("mark_approved") /\ ret.kind = "ok"
    /\ ret.row[1].status = APPROVED /\ ret.row[1].transaction_id = ret.txid
    /\ ret.row[1].approved_by = Some(ret.admin[1].name)
    /\ ret.row[1].failure_reason = None

\* C25: while the dispatch of a create_request waits for a listener, that
\* create_request is in no critical section of the store, and nothing waits
\* for it: add_listener can run, a create_request that waits for the store
\* lock gets it when it is free, the one that has it can insert its row, and
\* when the lock is held, it is held by another coroutine's store method, which
\* can take its next step.
C25_DispatchHoldsNoLock ==
    \A t \in Tasks :
        task[t].pc = "listener"
           => /\ t \notin Holders
              /\ Len(listeners) < MaxListeners
                    => \A kind \in ListenerKinds : ENABLED AddListener(kind)
              /\ locked => \E u \in Holders : u # t /\ ENABLED StoreStep(u)
              /\ \A u \in Tasks :
                    /\ (task[u].pc = "lock" /\ ~locked) => ENABLED AcquireCreate(u)
                    /\ (task[u].pc = "cs1" /\ task[u].stage = "create_request")
                          => ENABLED InsertRow(u)

\* C25 witness: the create_request of request 1 still waits for the first
\* listener it called, and meanwhile a listener has been registered and
\* another create_request has inserted request 2.
C25_Witness ==
    \E t \in Tasks :
        /\ task[t].pc = "listener" /\ task[t].next = 1 /\ task[t].payload[1].id = 1
        /\ Len(listeners) > Len(task[t].snapshot)
        /\ 2 \in DOMAIN rows

\* The fields each client accepts, in the order of their priority.
HTTPFields == <<"transaction_id", "txid", "id">>
PiteasFields == <<"transactionHash", "transaction_id", "txid", "id">>

\* Key k of a dict is present and not empty (null, "" and 0 count as empty).
Filled(d, k) == d[k] \notin {Absent, JNull, JStr(""), JInt(0)}

\* The first of the fields that is filled, if one is.
FirstFilled(d, fields) ==
    LET filled == { i \in DOMAIN fields : Filled(d, fields[i]) }
    IN  IF filled = {} THEN None
        ELSE Some(d[fields[CHOOSE i \in filled : \A j \in filled : i <= j]])

\* The outcome o of a send_payment that got a response is: WalletError for a
\* status >= 400; otherwise the string of the first filled field, or
\* WalletError when no field is filled.
ResultByPriority(o, fields) ==
    IF o.reply.status >= 400
      THEN ~o.returned /\ o.exc = "WalletError"
      ELSE LET first == FirstFilled(o.reply.body.data, fields)
           IN  IF first = None
                 THEN ~o.returned /\ o.exc = "WalletError"
                 ELSE o.returned /\ o.value = PyStr(first[1])

\* The send_payment calls of a client that got a response.
Answered(client) ==
    { o \in UNION { { outcomes[id][i] : i \in DOMAIN outcomes[id] } : id \in Ids } :
        o.client = client /\ o.reply.kind = "response" }

\* C26: every HTTPWalletClient.send_payment that got a response raised
\* WalletError when the status was >= 400, and otherwise returned the string
\* of the first non-empty of transaction_id, txid, id, or raised WalletError
\* when none of them was present and non-empty.
C26_HTTPWalletResult ==
    \A o \in Answered("http") : ResultByPriority(o, HTTPFields)

\* C26, for the responses whose body is a JSON object.
HTTPWalletResultOfObject ==
    \A o \in Answered("http") :
        (o.reply.status >= 400 \/ o.reply.body.kind = "object")
           => ResultByPriority(o, HTTPFields)

\* C26 witness: the HTTP client got status 200 with a body that is JSON but no
\* object, send_payment raised AttributeError, and approve_request recorded
\* the failure.
C26_Witness ==
    /\ Ended("approve") /\ ret.kind = "WalletError"
    /\ rows[ret.rid].status = FAILED
    /\ \E o \in Answered("http") :
          /\ o.reply.status = 200 /\ o.reply.body.kind = "json"
          /\ ~o.returned /\ o.exc = "AttributeError"

\* The payload of a Piteas call has a memo exactly when the metadata of the
\* request has a non-empty memo, that memo, and a priority exactly when the
\* client has one, that priority.
MemoAndPriority(o) ==
    /\ o.payload.memo # None <=> Filled(o.request.metadata, "memo")
    /\ o.payload.memo # None => o.payload.memo = Some(o.request.metadata["memo"])
    /\ o.payload.priority # None <=> (o.priority # None /\ o.priority # Some(""))
    /\ o.payload.priority # None => o.payload.priority = o.priority

\* The send_payment calls of the Piteas client.
PiteasCalls ==
    { o \in UNION { { outcomes[id][i] : i \in DOMAIN outcomes[id] } : id \in Ids } :
        o.client = "piteas" }

\* C27: every PiteasWalletClient.send_payment sent a payload with a memo
\* exactly when the request's metadata has a non-empty memo and a priority
\* exactly when one is configured; and when it got a response it raised
\* WalletError for a status >= 400, and otherwise returned the string of the
\* first non-empty of transactionHash, transaction_id, txid, id, or raised
\* WalletError when none of them was present and non-empty.
C27_PiteasWalletResult ==
    /\ \A o \in PiteasCalls : MemoAndPriority(o)
    /\ \A o \in Answered("piteas") : ResultByPriority(o, PiteasFields)

\* C27, for the responses whose body is a JSON object.
PiteasWalletResultOfObject ==
    /\ \A o \in PiteasCalls : MemoAndPriority(o)
    /\ \A o \in Answered("piteas") :
          (o.reply.status >= 400 \/ o.reply.body.kind = "object")
             => ResultByPriority(o, PiteasFields)

\* C27 witness: the Piteas client, with a priority and a memo in its payload,
\* got status 200 with a body that is not JSON, and send_payment raised
\* JSONDecodeError.
C27_Witness ==
    \E o \in Answered("piteas") :
        /\ o.reply.status = 200 /\ o.reply.body.kind = "text"
        /\ ~o.returned /\ o.exc = "JSONDecodeError"
        /\ o.payload.memo = Some(JStr("m")) /\ o.payload.priority = Some("high")


\* C28 (as stated): on shutdown the store is closed exactly once, after both
\* the bot task and the API server task have ended, and under the store lock:
\* main never ends without having closed it, it is closed only by main's
\* cleanup once both tasks are done, and never while a Store operation is in
\* its critical section.
ClosedByCleanup ==
    closed' # closed =>
        /\ ~closed /\ closed'
        /\ proc.main = "cleanup" /\ proc'.main = "done"
        /\ proc.bot \in Done /\ proc.server \in Done
        /\ Holders = {}

C28_StoreClosedOnceOnShutdown ==
    [][/\ ClosedByCleanup
       /\ proc'.main \notin {"failed"}]_vars

\* C28, the part that holds: whenever the store is closed, it is closed by
\* main's cleanup, once, after both tasks have ended, and with no Store
\* operation in its critical section.
StoreClosedAfterTasksUnderLock == [][ClosedByCleanup]_vars

\* main has ended with the exception of the bot task, and the store is open.
C28_Witness ==
    /\ proc.main = "failed"
    /\ proc.bot = "raised"
    /\ ~closed


\* The executor has returned a transaction id for request id.
PaymentSent(id) == \E i \in DOMAIN outcomes[id] : outcomes[id][i].returned

\* C29: when a reject_request succeeds while the send_payment of an
\* approve_request is in flight and the payment then succeeds, the
\* approve_request raises the invalid-state error of mark_approved, which
\* writes nothing, and the request stays rejected, with no transaction id, from
\* then on although the payment was sent.
C29_PaidButRejected ==
    [][/\ \A t \in Tasks :
             (/\ task[t].op = "approve" /\ task[t].stage = "mark_approved"
              /\ task[t].pc = "cs1" /\ task'[t] # task[t]
              /\ task[t].rid \in DOMAIN rows
              /\ rows[task[t].rid].status = REJECTED)
                => /\ PaymentSent(task[t].rid)
                   /\ ret'.kind = "WithdrawalStateError"
                   /\ ret'.by = "mark_approved"
                   /\ ret'.status = REJECTED
                   /\ ret'.txid = task[t].txid
                   /\ ret'.row = None
                   /\ rows' = rows
       /\ \A id \in DOMAIN rows :
             (rows[id].status = REJECTED /\ PaymentSent(id))
                => /\ rows'[id].status = REJECTED
                   /\ rows'[id].transaction_id = None]_vars

\* C29 witness: the payment of a request returned a transaction id, the
\* approve_request ended with the invalid-state error of mark_approved, and
\* the request is rejected and carries no transaction id.
C29_Witness ==
    /\ Ended("approve") /\ ret.by = "mark_approved" /\ ret.status = REJECTED
    /\ PaymentSent(ret.rid)
    /\ rows[ret.rid].status = REJECTED
    /\ \A id \in DOMAIN rows : rows[id].transaction_id # ret.txid


\* The store transitions that check the status of the request before they
\* write.
CheckedTransitions == {"mark_processing", "mark_approved", "mark_rejected"}

\* C30: a mark_processing, mark_approved or mark_rejected that fails with the
\* invalid-state or the not-found error writes nothing: every field of the
\* request it names, updated_at included, and every other request are as they
\* were, and no key is used.
C30_RefusedTransitionWritesNothing ==
    [][\A t \in Tasks :
          (/\ task[t].pc \in {"cs1", "cs2"} /\ task[t].stage \in CheckedTransitions
           /\ task'[t] # task[t]
           /\ ret'.kind \in {"WithdrawalStateError", "WithdrawalNotFoundError"})
             => /\ ret'.by = task[t].stage
                /\ rows' = rows
                /\ autoinc' = autoinc
                /\ clock' = clock]_vars

\* C30 witness: a mark_rejected has been refused on a request that carries a
\* transaction id, while another request is in the table.
C30_Witness ==
    /\ ret.kind = "WithdrawalStateError" /\ ret.by = "mark_rejected"
    /\ ret.status = APPROVED
    /\ rows[ret.rid].transaction_id # None
    /\ \E id \in DOMAIN rows : id # ret.rid


\* The columns of a request that are written at its creation alone.
CreationFields(row) ==
    [id |-> row.id, player_name |-> row.player_name, player_uuid |-> row.player_uuid,
     wallet_address |-> row.wallet_address, amount |-> row.amount,
     currency |-> row.currency, metadata |-> row.metadata, created_at |-> row.created_at]

\* C31: after its creation no operation changes the id, player_name,
\* player_uuid, wallet_address, amount, currency, metadata or created_at of a
\* request, no request leaves the table, and a step that changes the row of a
\* request is a step of an operation on that request and leaves the row of
\* every other request as it was.
C31_CreationFieldsAndOtherRowsKept ==
    [][\A id \in DOMAIN rows :
          /\ id \in DOMAIN rows'
          /\ CreationFields(rows'[id]) = CreationFields(rows[id])
          /\ rows'[id] # rows[id]
                => /\ \E t \in Tasks : /\ task'[t] # task[t]
                                       /\ task[t].rid = id
                                       /\ task[t].op # "create"
                   /\ \A other \in DOMAIN rows' \ {id} :
                         /\ other \in DOMAIN rows
                         /\ rows'[other] = rows[other]]_vars

\* C31 witness: two requests are in the table; the first one has been
\* approved and carries a message id, the second one is as it was created.
C31_Witness ==
    /\ DOMAIN rows = {1, 2}
    /\ rows[1].status = APPROVED /\ rows[1].discord_message_id # None
    /\ rows[1].updated_at > rows[1].created_at
    /\ rows[2].status = PENDING /\ rows[2].updated_at = rows[2].created_at


\* The position of the listener that the create_request of request id waits
\* for, in a set: the empty set when it waits for none.
AwaitedListener(tasks, id) ==
    { tasks[t].next : t \in { u \in Tasks : /\ tasks[u].op = "create"
                                            /\ tasks[u].stage # "create_request"
                                            /\ tasks[u].payload[1].id = id } }

\* C32: the dispatch of a create_request calls the listeners that were in the
\* registry when it copied it, each once, in the order of registration and one
\* after the other: while it waits for the coroutine of one, none after that
\* one has been called, and a listener registered meanwhile is not called for
\* this request; create_request returns when the last of the copy has ended.
C32_DispatchFollowsSnapshot ==
    [][\A id \in Ids :
          LET before == notified[id]
              after == notified'[id]
          IN  /\ IF id \in DOMAIN rows THEN after.snapshot = before.snapshot
                 ELSE IF id \in DOMAIN rows' THEN after.snapshot = listeners
                 ELSE after = before
              /\ after.called = Positions(Len(after.called))
              /\ Len(before.called) <= Len(after.called)
              /\ Len(after.called) <= Len(after.snapshot)
              /\ \A k \in DOMAIN after.called :
                    (Len(before.called) < k /\ k < Len(after.called))
                       => ~IsCoroutine(after.snapshot[k])
              /\ \A k \in AwaitedListener(task', id) :
                    /\ Len(after.called) = k
                    /\ IsCoroutine(after.snapshot[k])
              /\ (after.called # before.called /\ id \in DOMAIN rows)
                    => AwaitedListener(task, id) = {Len(before.called)}
              /\ (ret'.kind # "none" /\ ret'.op = "create" /\ ret'.row # None
                    /\ ret'.row[1].id = id)
                    => /\ after.called = Positions(Len(after.snapshot))
                       /\ AwaitedListener(task', id) = {}]_vars

\* C32 witness: a create_request has returned after it called the one
\* listener of its copy, a coroutine, and the listener that was registered
\* while it waited has not been called for this request.
C32_Witness ==
    /\ Ended("create") /\ ret.kind = "ok"
    /\ notified[ret.row[1].id].snapshot = <<"coroutine">>
    /\ notified[ret.row[1].id].called = <<1>>
    /\ Len(listeners) = 2


\* The next step of a coroutine that waits for the store lock.
Acquires(t) == AcquireCreate(t) \/ ObserverAcquires(t)

====
